---- MODULE Spec2Model ----
(***************************************************************************)
(* Model of the product / order service:                                   *)
(*   internal/repository/memory.go   MemoryStore, MemoryOrders, MemoryTx   *)
(*   internal/service/product_service.go   ProductService                  *)
(*   README.md (lines 76-307)        OrderService                          *)
(*                                                                         *)
(* The specifications share the repository and service operators:          *)
(*   Spec      every service call is one atomic action (a call holds the   *)
(*             store lock from its first store access to its last);        *)
(*   SpecDelete  Spec without direct product Update;                       *)
(*   SpecOrders  SpecDelete without product Delete and the read calls;     *)
(*   SpecSingle  SpecOrders with at most one line per product in an order;*)
(*   SpecAlias   atomic calls, and the caller writes through a result;     *)
(*   SpecConc  concurrent callers, one action per lock operation and per   *)
(*             store access, used for the locking claims;                  *)
(*   SpecConcRead  SpecConc with readers, PartialReturn and product Delete;*)
(*   SpecConcFair  SpecConcRead under fair scheduling;                     *)
(*   SpecNested  SpecConcRead with clients that call WithTransaction;      *)
(*   SpecWide  the atomic product Create / Update and order calls on       *)
(*             stocks and quantities near 2^62 and 2^63 (Wide numbers).    *)
(* Stocks, quantities and identifiers are int64: Int64 is Go's wrap-around,*)
(* Int64Wide the same on Wide numbers.                                     *)
(* Timestamps (CreatedAt / UpdatedAt) are not modelled.                    *)
(***************************************************************************)
EXTENDS Integers, Sequences, FiniteSets, TLC

\* ------------------------------------------------------------------ bounds
MaxProducts == 2      \* product Create is offered while nextProdID <= MaxProducts
MaxOrders   == 1      \* CreateOrder is offered while nextOrderID <= MaxOrders
MaxStock    == 2      \* largest stock value a caller passes to product Create / Update
MaxQty      == 2      \* largest quantity in a submitted line or return entry
MaxItems    == 2      \* longest submitted items / returns list
StockCap    == 6      \* CancelOrder / PartialReturn are offered while no stock exceeds it
MaxCalls    == 1      \* SpecConc: calls each concurrent caller makes

\* ------------------------------------------------------------ error values
ErrNil            == "nil"
ErrInvalidInput   == "invalid input"
ErrNotFound       == "not found"
ErrNotEnoughStock == "not enough stock"
ErrInvalidState   == "invalid state"

\* ------------------------------------------------------------- domain types
OrderStatusPending   == "Pending"
OrderStatusConfirmed == "Confirmed"
OrderStatusCancelled == "Cancelled"

OrderItem(pid, q) == [ProductID |-> pid, Quantity |-> q]

Product(id, name, sku, price, stock) ==
  [ID |-> id, Name |-> name, SKU |-> sku, Price |-> price, Stock |-> stock]

Order(id, customer, items, status) ==
  [ID |-> id, CustomerName |-> customer, Items |-> items, Status |-> status]

\* the nil *domain.Order / *domain.Product a failed call returns
NilOrder   == Order(0, "", <<>>, "nil")
NilProduct == Product(0, "", "", 0, 0)

\* ------------------------------------------------------------------- state
VARIABLES
  store,      \* the MemoryStore: nextProdID, nextOrderID, productsByID, ordersByID
  last,       \* the last completed service call: operation, arguments, result, store before it
  initStock,  \* history: stock each product was created with
  mu,         \* SpecConc: the RWMutex  [w : holder or 0, r : set of readers]
  pc,         \* SpecConc: position of each caller
  loc         \* SpecConc: locals of each caller

vars == <<store, last, initStock, mu, pc, loc>>

\* Go map assignment m[k] = v and delete(m, k)
MapPut(m, k, v) == [x \in (DOMAIN m) \cup {k} |-> IF x = k THEN v ELSE m[x]]
MapDelete(m, k) == [x \in (DOMAIN m) \ {k} |-> m[x]]
EmptyMap == [x \in {} |-> 0]

\* the result of int64 arithmetic: Go keeps the low 64 bits of the exact value,
\* read as a two's complement number; an exact value of at most 31 bits is its
\* own result
Int64(x) ==
  IF -1073741824 <= x /\ x <= 1073741823 THEN x
  ELSE ((x + 2^63) % 2^64) - 2^63

NewMemoryStore ==
  [nextProdID |-> 1, nextOrderID |-> 1, productsByID |-> EmptyMap, ordersByID |-> EmptyMap]

\* --------------------------------------------------------------- repository
\* every repository operator maps a store value to [st, err, val]
\* variant: the identifier is one more than the number of stored products
MemoryStoreCreateReuse(st, p) ==
  LET np == [p EXCEPT !.ID = Cardinality(DOMAIN st.productsByID) + 1]
  IN [st  |-> [st EXCEPT !.nextProdID = Int64(@ + 1),
                         !.productsByID = MapPut(@, np.ID, np)],
      err |-> ErrNil, val |-> np]

MemoryStoreCreate(st, p) ==
  LET np == [p EXCEPT !.ID = st.nextProdID]
  IN [st  |-> [st EXCEPT !.nextProdID = Int64(@ + 1),
                         !.productsByID = MapPut(@, np.ID, np)],
      err |-> ErrNil, val |-> np]

MemoryStoreGetByID(st, id) ==
  IF id \notin DOMAIN st.productsByID
  THEN [st |-> st, err |-> ErrNotFound, val |-> NilProduct]
  ELSE [st |-> st, err |-> ErrNil, val |-> st.productsByID[id]]

\* variant: Update stores the product whether or not the identifier exists
MemoryStoreUpdateUpsert(st, p) ==
  [st |-> [st EXCEPT !.productsByID = MapPut(@, p.ID, p)], err |-> ErrNil, val |-> p]

MemoryStoreUpdate(st, p) ==
  IF p.ID \notin DOMAIN st.productsByID
  THEN [st |-> st, err |-> ErrNotFound, val |-> p]
  ELSE [st |-> [st EXCEPT !.productsByID = MapPut(@, p.ID, p)], err |-> ErrNil, val |-> p]

MemoryStoreDelete(st, id) ==
  IF id \notin DOMAIN st.productsByID
  THEN [st |-> st, err |-> ErrNotFound, val |-> NilProduct]
  ELSE [st |-> [st EXCEPT !.productsByID = MapDelete(@, id)], err |-> ErrNil, val |-> NilProduct]

MemoryOrdersCreate(st, o) ==
  LET no == [o EXCEPT !.ID = st.nextOrderID]
  IN [st  |-> [st EXCEPT !.nextOrderID = Int64(@ + 1),
                         !.ordersByID = MapPut(@, no.ID, no)],
      err |-> ErrNil, val |-> no]

MemoryOrdersGetByID(st, id) ==
  IF id \notin DOMAIN st.ordersByID
  THEN [st |-> st, err |-> ErrNotFound, val |-> NilOrder]
  ELSE [st |-> st, err |-> ErrNil, val |-> st.ordersByID[id]]

MemoryOrdersUpdate(st, o) ==
  IF o.ID \notin DOMAIN st.ordersByID
  THEN [st |-> st, err |-> ErrNotFound, val |-> o]
  ELSE [st |-> [st EXCEPT !.ordersByID = MapPut(@, o.ID, o)], err |-> ErrNil, val |-> o]

\* variant: the unit of work's error is dropped
WithTransactionSwallow(fnResult) ==
  [st |-> fnResult.st, err |-> ErrNil, val |-> fnResult.val, locked |-> TRUE]

\* Tx manager: runs fn under the exclusive lock and returns what fn returns.
\* fnResult is the [st, err, val] the unit of work produced; nothing is rolled
\* back.  Lock and Unlock are the TxLock / TxUnlock steps of SpecConc; in the
\* atomic specifications the result records that mu was acquired.
WithTransaction(fnResult) ==
  [st |-> fnResult.st, err |-> fnResult.err, val |-> fnResult.val, locked |-> TRUE]

\* a store call made outside a transaction: isTx is false, so its rlock / wlock
\* acquires mu and its runlock / wunlock releases it
OutsideTx(r) == [st |-> r.st, err |-> r.err, val |-> r.val, locked |-> TRUE]

\* ----------------------------------------------------------- ProductService
ProductServiceCreate(st, p) ==
  IF p.Name = "" \/ p.SKU = "" \/ p.Price < 0 \/ p.Stock < 0
  THEN [st |-> st, err |-> ErrInvalidInput, val |-> NilProduct, locked |-> FALSE]
  ELSE OutsideTx(MemoryStoreCreate(st, p))

ProductServiceGetByID(st, id) ==
  IF id <= 0
  THEN [st |-> st, err |-> ErrInvalidInput, val |-> NilProduct, locked |-> FALSE]
  ELSE OutsideTx(MemoryStoreGetByID(st, id))

ProductServiceUpdate(st, p) ==
  IF p.ID <= 0 \/ p.Name = "" \/ p.Price < 0 \/ p.Stock < 0
  THEN [st |-> st, err |-> ErrInvalidInput, val |-> NilProduct, locked |-> FALSE]
  ELSE LET r == OutsideTx(MemoryStoreUpdate(st, p))
       IN IF r.err # ErrNil THEN [r EXCEPT !.val = NilProduct] ELSE r

ProductServiceDelete(st, id) ==
  IF id <= 0
  THEN [st |-> st, err |-> ErrInvalidInput, val |-> NilProduct, locked |-> FALSE]
  ELSE OutsideTx(MemoryStoreDelete(st, id))

\* ------------------------------------------------------------- OrderService
\* sum of the quantities of the lines of items that reference product pid, as
\* the loops "qtyByProduct[it.ProductID] += it.Quantity" and
\* "totalReturn += r.Quantity" compute it
RECURSIVE SumQty(_, _)
SumQty(items, pid) ==
  IF items = <<>> THEN 0
  ELSE Int64((IF Head(items).ProductID = pid THEN Head(items).Quantity ELSE 0)
             + SumQty(Tail(items), pid))

\* variant: only the product identifiers are validated
ItemsInvalidIDsOnly(items) ==
  \E i \in 1..Len(items) : items[i].ProductID <= 0

\* the field validation loop of CreateOrder and PartialReturn
ItemsInvalid(items) ==
  \E i \in 1..Len(items) : items[i].ProductID <= 0 \/ items[i].Quantity <= 0

\* variant: a line is checked against the copy an earlier line reserved from
CreateOrderLineAggregate(st, it, productCopies) ==
  LET r == MemoryStoreGetByID(st, it.ProductID)
      p == IF it.ProductID \in DOMAIN productCopies THEN productCopies[it.ProductID] ELSE r.val
  IN IF r.err # ErrNil THEN [err |-> r.err, productCopies |-> productCopies]
     ELSE IF p.Stock < it.Quantity
     THEN [err |-> ErrNotEnoughStock, productCopies |-> productCopies]
     ELSE [err |-> ErrNil,
           productCopies |-> MapPut(productCopies, p.ID, [p EXCEPT !.Stock = Int64(@ - it.Quantity)])]

\* one iteration of the "load and check stock" loop of CreateOrder
CreateOrderLine(st, it, productCopies) ==
  LET r == MemoryStoreGetByID(st, it.ProductID)
  IN IF r.err # ErrNil THEN [err |-> r.err, productCopies |-> productCopies]
     ELSE IF r.val.Stock < it.Quantity
     THEN [err |-> ErrNotEnoughStock, productCopies |-> productCopies]
     ELSE [err |-> ErrNil,
           productCopies |-> MapPut(productCopies, r.val.ID,
                                    [r.val EXCEPT !.Stock = Int64(@ - it.Quantity)])]

RECURSIVE CreateOrderCheck(_, _, _)
CreateOrderCheck(st, items, productCopies) ==
  IF items = <<>> THEN [err |-> ErrNil, productCopies |-> productCopies]
  ELSE LET r == CreateOrderLine(st, Head(items), productCopies)
       IN IF r.err # ErrNil THEN r
          ELSE CreateOrderCheck(st, Tail(items), r.productCopies)

\* the "persist product stock updates" loop; the keys are distinct, so the
\* iteration order of the Go map does not change the result
RECURSIVE CreateOrderPersist(_, _)
CreateOrderPersist(st, productCopies) ==
  IF DOMAIN productCopies = {} THEN [st |-> st, err |-> ErrNil]
  ELSE LET k == CHOOSE x \in DOMAIN productCopies : TRUE
           r == MemoryStoreUpdate(st, productCopies[k])
       IN IF r.err # ErrNil THEN [st |-> r.st, err |-> r.err]
          ELSE CreateOrderPersist(r.st, MapDelete(productCopies, k))

\* variant: the copies reserved before a failing line are persisted
CreateOrderTxEager(st, customer, items) ==
  LET c == CreateOrderCheck(st, items, EmptyMap)
      u == CreateOrderPersist(st, c.productCopies)
  IN IF c.err # ErrNil THEN [st |-> u.st, err |-> c.err, val |-> NilOrder]
     ELSE IF u.err # ErrNil THEN [st |-> u.st, err |-> u.err, val |-> NilOrder]
     ELSE MemoryOrdersCreate(u.st, Order(0, customer, items, OrderStatusConfirmed))

\* the unit of work of CreateOrder
CreateOrderTx(st, customer, items) ==
  LET c == CreateOrderCheck(st, items, EmptyMap)
  IN IF c.err # ErrNil THEN [st |-> st, err |-> c.err, val |-> NilOrder]
     ELSE LET u == CreateOrderPersist(st, c.productCopies)
          IN IF u.err # ErrNil THEN [st |-> u.st, err |-> u.err, val |-> NilOrder]
             ELSE MemoryOrdersCreate(u.st, Order(0, customer, items, OrderStatusConfirmed))

\* the lines of items without those that a later line for the same product follows
KeepLastLines(items) ==
  LET keep == {i \in 1..Len(items) :
                 \A j \in 1..Len(items) : j > i => items[j].ProductID # items[i].ProductID}
      F[n \in 0..Len(items)] ==
        IF n = 0 THEN <<>>
        ELSE IF n \in keep THEN Append(F[n - 1], items[n]) ELSE F[n - 1]
  IN F[Len(items)]

\* variant: the order is built from one line per product
OrderServiceCreateOrderMerged(st, customer, items) ==
  IF customer = "" \/ Len(items) = 0 \/ ItemsInvalid(items)
  THEN [st |-> st, err |-> ErrInvalidInput, val |-> NilOrder, locked |-> FALSE]
  ELSE LET r == WithTransaction(CreateOrderTx(st, customer, KeepLastLines(items)))
       IN IF r.err # ErrNil THEN [r EXCEPT !.val = NilOrder] ELSE r

OrderServiceCreateOrder(st, customer, items) ==
  IF customer = "" \/ Len(items) = 0 \/ ItemsInvalid(items)
  THEN [st |-> st, err |-> ErrInvalidInput, val |-> NilOrder, locked |-> FALSE]
  ELSE LET r == WithTransaction(CreateOrderTx(st, customer, items))
       IN IF r.err # ErrNil THEN [r EXCEPT !.val = NilOrder] ELSE r

\* one iteration of the "return stock" loop of CancelOrder
CancelOrderLine(st, it) ==
  LET r == MemoryStoreGetByID(st, it.ProductID)
  IN IF r.err # ErrNil THEN [st |-> st, err |-> r.err]
     ELSE LET u == MemoryStoreUpdate(st, [r.val EXCEPT !.Stock = Int64(@ + it.Quantity)])
          IN [st |-> u.st, err |-> u.err]

RECURSIVE CancelOrderRestore(_, _)
CancelOrderRestore(st, items) ==
  IF items = <<>> THEN [st |-> st, err |-> ErrNil]
  ELSE LET r == CancelOrderLine(st, Head(items))
       IN IF r.err # ErrNil THEN r ELSE CancelOrderRestore(r.st, Tail(items))

\* variant: the status of the order is not checked
CancelOrderTxAnyStatus(st, id) ==
  LET g == MemoryOrdersGetByID(st, id)
  IN IF g.err # ErrNil THEN [st |-> st, err |-> g.err, val |-> NilOrder]
     ELSE LET r == CancelOrderRestore(st, g.val.Items)
          IN IF r.err # ErrNil THEN [st |-> r.st, err |-> r.err, val |-> NilOrder]
             ELSE MemoryOrdersUpdate(r.st, [g.val EXCEPT !.Status = OrderStatusCancelled])

\* variant: a failing restore loop leaves the store as it was
CancelOrderTxRollback(st, id) ==
  LET g == MemoryOrdersGetByID(st, id)
  IN IF g.err # ErrNil THEN [st |-> st, err |-> g.err, val |-> NilOrder]
     ELSE IF g.val.Status # OrderStatusConfirmed
     THEN [st |-> st, err |-> ErrInvalidState, val |-> NilOrder]
     ELSE LET r == CancelOrderRestore(st, g.val.Items)
          IN IF r.err # ErrNil THEN [st |-> st, err |-> r.err, val |-> NilOrder]
             ELSE MemoryOrdersUpdate(r.st, [g.val EXCEPT !.Status = OrderStatusCancelled])

\* the unit of work of CancelOrder
CancelOrderTx(st, id) ==
  LET g == MemoryOrdersGetByID(st, id)
  IN IF g.err # ErrNil THEN [st |-> st, err |-> g.err, val |-> NilOrder]
     ELSE IF g.val.Status # OrderStatusConfirmed
     THEN [st |-> st, err |-> ErrInvalidState, val |-> NilOrder]
     ELSE LET r == CancelOrderRestore(st, g.val.Items)
          IN IF r.err # ErrNil THEN [st |-> r.st, err |-> r.err, val |-> NilOrder]
             ELSE MemoryOrdersUpdate(r.st, [g.val EXCEPT !.Status = OrderStatusCancelled])

OrderServiceGetOrder(st, id) ==
  IF id <= 0
  THEN [st |-> st, err |-> ErrInvalidInput, val |-> NilOrder, locked |-> FALSE]
  ELSE OutsideTx(MemoryOrdersGetByID(st, id))

OrderServiceCancelOrder(st, id) ==
  IF id <= 0
  THEN [st |-> st, err |-> ErrInvalidInput, val |-> NilOrder, locked |-> FALSE]
  ELSE LET r == WithTransaction(CancelOrderTx(st, id))
       IN IF r.err # ErrNil THEN [r EXCEPT !.val = NilOrder] ELSE r

\* consumed[pid] of the Go map, zero when the key is absent
MapGet0(m, k) == IF k \in DOMAIN m THEN m[k] ELSE 0

\* variant: nothing is added to the stock
PartialReturnRestoreNone(st, pid, n) ==
  LET r == MemoryStoreGetByID(st, pid)
  IN IF r.err # ErrNil THEN [st |-> st, err |-> r.err]
     ELSE LET u == MemoryStoreUpdate(st, r.val)
          IN [st |-> u.st, err |-> u.err]

\* the stock restoration of one affected line of PartialReturn
PartialReturnRestore(st, pid, n) ==
  LET r == MemoryStoreGetByID(st, pid)
  IN IF r.err # ErrNil THEN [st |-> st, err |-> r.err]
     ELSE LET u == MemoryStoreUpdate(st, [r.val EXCEPT !.Stock = Int64(@ + n)])
          IN [st |-> u.st, err |-> u.err]

\* variant: a dropped line counts as having returned all that was still needed
PartialReturnLineNoCarry(st, returns, it, newItems, consumed) ==
  LET ret         == MapGet0(consumed, it.ProductID)
      totalReturn == SumQty(returns, it.ProductID)
      canReturn   == it.Quantity
      needReturn  == Int64(totalReturn - ret)
  IN IF ret >= totalReturn
     THEN [st |-> st, err |-> ErrNil, newItems |-> Append(newItems, it), consumed |-> consumed]
     ELSE IF needReturn < canReturn
     THEN LET u == PartialReturnRestore(st, it.ProductID, needReturn)
          IN [st |-> u.st, err |-> u.err,
              newItems |-> Append(newItems, [it EXCEPT !.Quantity = Int64(@ - needReturn)]),
              consumed |-> MapPut(consumed, it.ProductID, Int64(ret + needReturn))]
     ELSE LET u == PartialReturnRestore(st, it.ProductID, canReturn)
          IN [st |-> u.st, err |-> u.err, newItems |-> newItems,
              consumed |-> MapPut(consumed, it.ProductID, Int64(ret + needReturn))]

\* one iteration of the "apply returns" loop of PartialReturn
PartialReturnLine(st, returns, it, newItems, consumed) ==
  LET ret         == MapGet0(consumed, it.ProductID)
      totalReturn == SumQty(returns, it.ProductID)
      canReturn   == it.Quantity
      needReturn  == Int64(totalReturn - ret)
  IN IF ret >= totalReturn
     THEN [st |-> st, err |-> ErrNil, newItems |-> Append(newItems, it), consumed |-> consumed]
     ELSE IF needReturn < canReturn
     THEN LET u == PartialReturnRestore(st, it.ProductID, needReturn)
          IN [st |-> u.st, err |-> u.err,
              newItems |-> Append(newItems, [it EXCEPT !.Quantity = Int64(@ - needReturn)]),
              consumed |-> MapPut(consumed, it.ProductID, Int64(ret + needReturn))]
     ELSE IF needReturn = canReturn
     THEN LET u == PartialReturnRestore(st, it.ProductID, needReturn)
          IN [st |-> u.st, err |-> u.err, newItems |-> newItems,
              consumed |-> MapPut(consumed, it.ProductID, Int64(ret + needReturn))]
     ELSE LET u == PartialReturnRestore(st, it.ProductID, canReturn)
          IN [st |-> u.st, err |-> u.err, newItems |-> newItems,
              consumed |-> MapPut(consumed, it.ProductID, Int64(ret + canReturn))]

RECURSIVE PartialReturnApply(_, _, _, _, _)
PartialReturnApply(st, returns, items, newItems, consumed) ==
  IF items = <<>>
  THEN [st |-> st, err |-> ErrNil, newItems |-> newItems, consumed |-> consumed]
  ELSE LET r == PartialReturnLine(st, returns, Head(items), newItems, consumed)
       IN IF r.err # ErrNil THEN r
          ELSE PartialReturnApply(r.st, returns, Tail(items), r.newItems, r.consumed)

\* the "validate not exceeding" loop: each return entry against the held total
PartialReturnExceeds(items, returns) ==
  \E i \in 1..Len(returns) :
     SumQty(items, returns[i].ProductID) < returns[i].Quantity

\* variant: the status of the order is not checked
PartialReturnTxAnyStatus(st, id, returns) ==
  LET g == MemoryOrdersGetByID(st, id)
  IN IF g.err # ErrNil THEN [st |-> st, err |-> g.err, val |-> NilOrder]
     ELSE IF PartialReturnExceeds(g.val.Items, returns)
     THEN [st |-> st, err |-> ErrInvalidInput, val |-> NilOrder]
     ELSE LET r == PartialReturnApply(st, returns, g.val.Items, <<>>, EmptyMap)
          IN IF r.err # ErrNil THEN [st |-> r.st, err |-> r.err, val |-> NilOrder]
             ELSE MemoryOrdersUpdate(r.st, [g.val EXCEPT !.Items = r.newItems])

\* variant: a failing walk leaves the store as it was
PartialReturnTxRollback(st, id, returns) ==
  LET g == MemoryOrdersGetByID(st, id)
  IN IF g.err # ErrNil THEN [st |-> st, err |-> g.err, val |-> NilOrder]
     ELSE IF g.val.Status # OrderStatusConfirmed
     THEN [st |-> st, err |-> ErrInvalidState, val |-> NilOrder]
     ELSE IF PartialReturnExceeds(g.val.Items, returns)
     THEN [st |-> st, err |-> ErrInvalidInput, val |-> NilOrder]
     ELSE LET r == PartialReturnApply(st, returns, g.val.Items, <<>>, EmptyMap)
          IN IF r.err # ErrNil THEN [st |-> st, err |-> r.err, val |-> NilOrder]
             ELSE MemoryOrdersUpdate(r.st, [g.val EXCEPT !.Items = r.newItems])

\* variant: an order left without items is marked Cancelled
PartialReturnTxCancelsEmpty(st, id, returns) ==
  LET g == MemoryOrdersGetByID(st, id)
  IN IF g.err # ErrNil THEN [st |-> st, err |-> g.err, val |-> NilOrder]
     ELSE IF g.val.Status # OrderStatusConfirmed
     THEN [st |-> st, err |-> ErrInvalidState, val |-> NilOrder]
     ELSE IF PartialReturnExceeds(g.val.Items, returns)
     THEN [st |-> st, err |-> ErrInvalidInput, val |-> NilOrder]
     ELSE LET r == PartialReturnApply(st, returns, g.val.Items, <<>>, EmptyMap)
          IN IF r.err # ErrNil THEN [st |-> r.st, err |-> r.err, val |-> NilOrder]
             ELSE MemoryOrdersUpdate(r.st,
                    [g.val EXCEPT !.Items = r.newItems,
                                  !.Status = IF r.newItems = <<>> THEN OrderStatusCancelled ELSE @])

\* the unit of work of PartialReturn
PartialReturnTx(st, id, returns) ==
  LET g == MemoryOrdersGetByID(st, id)
  IN IF g.err # ErrNil THEN [st |-> st, err |-> g.err, val |-> NilOrder]
     ELSE IF g.val.Status # OrderStatusConfirmed
     THEN [st |-> st, err |-> ErrInvalidState, val |-> NilOrder]
     ELSE IF PartialReturnExceeds(g.val.Items, returns)
     THEN [st |-> st, err |-> ErrInvalidInput, val |-> NilOrder]
     ELSE LET r == PartialReturnApply(st, returns, g.val.Items, <<>>, EmptyMap)
          IN IF r.err # ErrNil THEN [st |-> r.st, err |-> r.err, val |-> NilOrder]
             ELSE MemoryOrdersUpdate(r.st, [g.val EXCEPT !.Items = r.newItems])

OrderServicePartialReturn(st, id, returns) ==
  IF id <= 0 \/ Len(returns) = 0 \/ ItemsInvalid(returns)
  THEN [st |-> st, err |-> ErrInvalidInput, val |-> NilOrder, locked |-> FALSE]
  ELSE LET r == WithTransaction(PartialReturnTx(st, id, returns))
       IN IF r.err # ErrNil THEN [r EXCEPT !.val = NilOrder] ELSE r

\* ------------------------------------------------------------ caller inputs
\* valid values, and one representative of every value the validation rejects
Customers  == {"", "John"}
ProductIDs == 0..MaxProducts
OrderIDs   == 0..MaxOrders

ItemInputs ==
  {OrderItem(pid, q) : pid \in 1..MaxProducts, q \in 1..MaxQty}
    \cup {OrderItem(0, 1), OrderItem(1, 0)}
ItemLists == UNION {[1..n -> ItemInputs] : n \in 0..MaxItems}

ProductInputs(id) ==
  {Product(id, "A", "S", 10, s) : s \in -1..MaxStock}
    \cup {Product(id, "", "S", 10, 0), Product(id, "A", "", 10, 0), Product(id, "A", "S", -1, 0)}

\* the record of a completed call: operation, arguments, result, store before
\* it, whether the call acquired mu, and whether the caller has since written
\* through the returned order
Call(op, id, customer, items, p, r, pre) ==
  [op |-> op, id |-> id, customer |-> customer, items |-> items, p |-> p,
   err |-> r.err, val |-> r.val, pre |-> pre, locked |-> r.locked, mutated |-> FALSE]

NoCall ==
  Call("none", 0, "", <<>>, NilProduct, [err |-> ErrNil, val |-> NilOrder, locked |-> FALSE],
       NewMemoryStore)

Procs == {1, 2}

concVars == <<mu, pc, loc>>

\* locals of a caller: the call's arguments, the loop index, productCopies
\* (consumed in PartialReturn), newItems, the fetched order, the error to
\* return, the context's txKey value and the number of calls made so far
NoLocals == [op |-> "none", id |-> 0, customer |-> "", items |-> <<>>, i |-> 1,
             copies |-> EmptyMap, newItems |-> <<>>, o |-> NilOrder, p |-> NilProduct,
             err |-> ErrNil, tx |-> FALSE, n |-> 0]

Init ==
  /\ store = NewMemoryStore
  /\ last = NoCall
  /\ initStock = EmptyMap
  /\ mu = [w |-> 0, r |-> {}]
  /\ pc = [c \in Procs |-> "idle"]
  /\ loc = [c \in Procs |-> NoLocals]

\* keeps the stock values finite: a restoration that fails part-way can be repeated
StockBounded(st) == \A k \in DOMAIN st.productsByID : st.productsByID[k].Stock <= StockCap

\* ------------------------------------------- Spec: one action per service call
\* Requests are served one at a time: a call runs from its validation to its
\* return, its result is written to the response (Reply), then the next call
\* is taken.
ProductCreate(p) ==
  /\ last = NoCall
  /\ store.nextProdID <= MaxProducts
  /\ LET r == ProductServiceCreate(store, p)
     IN /\ store' = r.st
        /\ last' = Call("ProductCreate", 0, "", <<>>, p, [r EXCEPT !.val = NilOrder], store)
        /\ initStock' = IF r.err = ErrNil THEN MapPut(initStock, r.val.ID, r.val.Stock)
                        ELSE initStock
  /\ UNCHANGED concVars

ProductUpdate(p) ==
  /\ last = NoCall
  /\ LET r == ProductServiceUpdate(store, p)
     IN /\ store' = r.st
        /\ last' = Call("ProductUpdate", p.ID, "", <<>>, p, [r EXCEPT !.val = NilOrder], store)
  /\ UNCHANGED <<initStock, concVars>>

ProductDelete(id) ==
  /\ last = NoCall
  /\ LET r == ProductServiceDelete(store, id)
     IN /\ store' = r.st
        /\ last' = Call("ProductDelete", id, "", <<>>, NilProduct, [r EXCEPT !.val = NilOrder], store)
  /\ UNCHANGED <<initStock, concVars>>

CreateOrder(customer, items) ==
  /\ last = NoCall
  /\ store.nextOrderID <= MaxOrders
  /\ LET r == OrderServiceCreateOrder(store, customer, items)
     IN /\ store' = r.st
        /\ last' = Call("CreateOrder", 0, customer, items, NilProduct, r, store)
  /\ UNCHANGED <<initStock, concVars>>

CancelOrder(id) ==
  /\ last = NoCall
  /\ LET r == OrderServiceCancelOrder(store, id)
     IN /\ StockBounded(r.st)
        /\ store' = r.st
        /\ last' = Call("CancelOrder", id, "", <<>>, NilProduct, r, store)
  /\ UNCHANGED <<initStock, concVars>>

PartialReturn(id, returns) ==
  /\ last = NoCall
  /\ LET r == OrderServicePartialReturn(store, id, returns)
     IN /\ StockBounded(r.st)
        /\ store' = r.st
        /\ last' = Call("PartialReturn", id, "", returns, NilProduct, r, store)
  /\ UNCHANGED <<initStock, concVars>>

\* ProductService.GetByID; the fetched product is recorded in p
ProductGetByID(id) ==
  /\ last = NoCall
  /\ LET r == ProductServiceGetByID(store, id)
     IN /\ store' = r.st
        /\ last' = Call("ProductGetByID", id, "", <<>>, r.val, [r EXCEPT !.val = NilOrder], store)
  /\ UNCHANGED <<initStock, concVars>>

GetOrder(id) ==
  /\ last = NoCall
  /\ LET r == OrderServiceGetOrder(store, id)
     IN /\ store' = r.st
        /\ last' = Call("GetOrder", id, "", <<>>, NilProduct, r, store)
  /\ UNCHANGED <<initStock, concVars>>

\* ------------------------------------------------------------ request layer
StatusOK                  == 200
StatusCreated             == 201
StatusNoContent           == 204
StatusBadRequest          == 400
StatusNotFound            == 404
StatusConflict            == 409
StatusInternalServerError == 500

\* an error value that is none of the four sentinel errors
ErrOther == "other"

\* variant: ErrInvalidState is answered like ErrInvalidInput
mapErrorToStatusNoConflict(err) ==
  IF err \in {ErrInvalidInput, ErrNotEnoughStock, ErrInvalidState} THEN StatusBadRequest
  ELSE IF err = ErrNotFound THEN StatusNotFound
  ELSE StatusInternalServerError

mapErrorToStatus(err) ==
  IF err = ErrInvalidInput THEN StatusBadRequest
  ELSE IF err = ErrNotEnoughStock THEN StatusBadRequest
  ELSE IF err = ErrNotFound THEN StatusNotFound
  ELSE IF err = ErrInvalidState THEN StatusConflict
  ELSE StatusInternalServerError

\* the status a handler answers with for a completed service call
HandlerStatus(call) ==
  IF call.err # ErrNil THEN mapErrorToStatus(call.err)
  ELSE IF call.op \in {"ProductCreate", "CreateOrder"} THEN StatusCreated
  ELSE IF call.op = "ProductDelete" THEN StatusNoContent
  ELSE StatusOK

\* the handler writes the response; the result is no longer held
Reply ==
  /\ last # NoCall
  /\ last' = NoCall
  /\ UNCHANGED <<store, initStock, concVars>>

NextOrders ==
  \/ \E p \in ProductInputs(0) : ProductCreate(p)
  \/ \E c \in Customers, items \in ItemLists : CreateOrder(c, items)
  \/ \E id \in OrderIDs : CancelOrder(id)
  \/ \E id \in OrderIDs, returns \in ItemLists : PartialReturn(id, returns)
  \/ Reply

NextDelete ==
  \/ NextOrders
  \/ \E id \in ProductIDs : ProductDelete(id)
  \/ \E id \in ProductIDs : ProductGetByID(id)
  \/ \E id \in OrderIDs : GetOrder(id)

Next ==
  \/ NextDelete
  \/ \E id \in ProductIDs : \E p \in ProductInputs(id) : ProductUpdate(p)

Spec == Init /\ [][Next]_vars

SpecDelete == Init /\ [][NextDelete]_vars

SpecOrders == Init /\ [][NextOrders]_vars

\* SpecOrders with CreateOrder lists of at most one line per product
NextSingle ==
  \/ \E p \in ProductInputs(0) : ProductCreate(p)
  \/ \E c \in Customers, items \in ItemLists :
       /\ \A i, j \in 1..Len(items) : i # j => items[i].ProductID # items[j].ProductID
       /\ CreateOrder(c, items)
  \/ \E id \in OrderIDs : CancelOrder(id)
  \/ \E id \in OrderIDs, returns \in ItemLists : PartialReturn(id, returns)
  \/ Reply

SpecSingle == Init /\ [][NextSingle]_vars

\* ------------------------------- SpecAlias: the caller writes through a result
\* The order a call returns is a struct copy (cp := o, *o): its Items slice
\* header points to the backing array the stored order's Items points to, for
\* CreateOrder also the array of the items argument.  A write to an element
\* through the returned order is a write to the stored order's element.  val
\* keeps the order as the call returned it.
OrderCalls == {"CreateOrder", "GetOrder", "CancelOrder"}

CallerWritesItem(i, q) ==
  /\ last.op \in OrderCalls
  /\ last.err = ErrNil
  /\ ~last.mutated
  /\ i \in 1..Len(last.val.Items)
  /\ store' = [store EXCEPT !.ordersByID[last.val.ID].Items[i].Quantity = q]
  /\ last' = [last EXCEPT !.mutated = TRUE]
  /\ UNCHANGED <<initStock, concVars>>

\* a Product has no reference field: the copy GetByID returns shares nothing
CallerWritesProduct ==
  /\ last.op = "ProductGetByID"
  /\ last.err = ErrNil
  /\ ~last.mutated
  /\ last' = [last EXCEPT !.mutated = TRUE]
  /\ UNCHANGED <<store, initStock, concVars>>

NextAlias ==
  \/ \E p \in ProductInputs(0) : ProductCreate(p)
  \/ \E c \in Customers, items \in ItemLists : CreateOrder(c, items)
  \/ \E id \in OrderIDs : CancelOrder(id)
  \/ \E id \in ProductIDs : ProductGetByID(id)
  \/ \E id \in OrderIDs : GetOrder(id)
  \/ \E i \in 1..MaxItems, q \in 1..MaxQty : CallerWritesItem(i, q)
  \/ CallerWritesProduct
  \/ Reply

SpecAlias == Init /\ [][NextAlias]_vars

\* ------------------------------------------------ SpecConc: concurrent callers
\* variant: Lock returns at once
CanLockNoWait(m) == TRUE

\* sync.RWMutex: Lock returns when there is no writer and no reader
CanLock(m) == m.w = 0 /\ m.r = {}

\* variant: the context is never seen as transactional
isTxNever(c) == FALSE

\* the txKey value of the caller's context
isTx(c) == loc[c].tx

\* SpecConc submits lists with at most one line per product, in ascending
\* product order (the check loop treats the lines of different products alike)
SingleLineLists ==
  {l \in UNION {[1..n -> {OrderItem(pid, q) : pid \in 1..MaxProducts, q \in 1..MaxQty}] : n \in 0..MaxItems} :
     \A i, j \in 1..Len(l) : i < j => l[i].ProductID < l[j].ProductID}

\* SpecConc creates products with no stock or full stock, or with an empty name
ConcProductInputs ==
  {Product(0, "A", "S", 10, 0), Product(0, "A", "S", 10, MaxStock), Product(0, "", "S", 10, 0)}

\* the store after one product Create, no call in progress
InitConc ==
  /\ \E s \in 0..MaxStock :
       /\ store = MemoryStoreCreate(NewMemoryStore, Product(0, "A", "S", 10, s)).st
       /\ initStock = MapPut(EmptyMap, 1, s)
  /\ last = NoCall
  /\ mu = [w |-> 0, r |-> {}]
  /\ pc = [c \in Procs |-> "idle"]
  /\ loc = [c \in Procs |-> NoLocals]

\* the locals of a caller whose call has returned: only the call count remains
Returned(n) == [NoLocals EXCEPT !.n = n]

\* a call begins: field validation, before any lock is taken
Begin(c, op, id, customer, items, p, invalid, next) ==
  /\ pc[c] = "idle"
  /\ loc[c].n < MaxCalls
  /\ loc' = [loc EXCEPT ![c] = IF invalid THEN Returned(loc[c].n + 1)
                               ELSE [NoLocals EXCEPT !.op = op, !.id = id, !.customer = customer,
                                                     !.items = items, !.p = p, !.n = loc[c].n + 1]]
  /\ pc' = [pc EXCEPT ![c] = IF invalid THEN "idle" ELSE next]
  /\ UNCHANGED <<store, last, initStock, mu>>

BeginCreateOrder(c, customer, items) ==
  /\ pc[c] = "idle"
  /\ Begin(c, "CreateOrder", 0, customer, items, NilProduct,
           customer = "" \/ Len(items) = 0 \/ ItemsInvalid(items), "tx_lock")

BeginCancelOrder(c, id) ==
  /\ pc[c] = "idle"
  /\ Begin(c, "CancelOrder", id, "", <<>>, NilProduct, id <= 0, "tx_lock")

BeginProductCreate(c, p) ==
  /\ store.nextProdID <= MaxProducts
  /\ Begin(c, "ProductCreate", 0, "", <<>>, p,
           p.Name = "" \/ p.SKU = "" \/ p.Price < 0 \/ p.Stock < 0, "wlock")

\* WithTransaction: tx.store.mu.Lock(), then the context is marked
TxLock(c) ==
  /\ pc[c] = "tx_lock"
  /\ CanLock(mu)
  /\ mu' = [mu EXCEPT !.w = c]
  /\ loc' = [loc EXCEPT ![c].tx = TRUE]
  /\ pc' = [pc EXCEPT ![c] = IF loc[c].op = "CreateOrder" THEN "co_check"
                             ELSE IF loc[c].op = "CancelOrder" THEN "ca_get" ELSE "pr_get"]
  /\ UNCHANGED <<store, last, initStock>>

\* WithTransaction: the deferred tx.store.mu.Unlock(), fn's error is returned
TxUnlock(c) ==
  /\ pc[c] = "tx_unlock"
  /\ mu' = [mu EXCEPT !.w = 0]
  /\ loc' = [loc EXCEPT ![c] = Returned(loc[c].n)]
  /\ pc' = [pc EXCEPT ![c] = "idle"]
  /\ UNCHANGED <<store, last, initStock>>

\* CreateOrder, one line of the check loop; GetByID skips the lock inside a transaction
CreateOrderCheckStep(c) ==
  /\ pc[c] = "co_check"
  /\ isTx(c)
  /\ LET l == loc[c]
         r == CreateOrderLine(store, l.items[l.i], l.copies)
     IN IF r.err # ErrNil
        THEN /\ loc' = [loc EXCEPT ![c].err = r.err]
             /\ pc' = [pc EXCEPT ![c] = "tx_unlock"]
        ELSE /\ loc' = [loc EXCEPT ![c].copies = r.productCopies, ![c].i = l.i + 1]
             /\ pc' = [pc EXCEPT ![c] = IF l.i = Len(l.items) THEN "co_persist" ELSE "co_check"]
  /\ UNCHANGED <<store, last, initStock, mu>>

\* CreateOrder, one Update of the persist loop, in any order of the map's keys
CreateOrderPersistStep(c) ==
  /\ pc[c] = "co_persist"
  /\ isTx(c)
  /\ \E k \in DOMAIN loc[c].copies :
       LET r == MemoryStoreUpdate(store, loc[c].copies[k])
           rest == MapDelete(loc[c].copies, k)
       IN /\ store' = r.st
          /\ IF r.err # ErrNil
             THEN /\ loc' = [loc EXCEPT ![c].err = r.err]
                  /\ pc' = [pc EXCEPT ![c] = "tx_unlock"]
             ELSE /\ loc' = [loc EXCEPT ![c].copies = rest]
                  /\ pc' = [pc EXCEPT ![c] = IF DOMAIN rest = {} THEN "co_create" ELSE "co_persist"]
  /\ UNCHANGED <<last, initStock, mu>>

\* CreateOrder, orders.Create
CreateOrderCreateStep(c) ==
  /\ pc[c] = "co_create"
  /\ isTx(c)
  /\ LET r == MemoryOrdersCreate(store, Order(0, loc[c].customer, loc[c].items, OrderStatusConfirmed))
     IN /\ store' = r.st
        /\ loc' = [loc EXCEPT ![c].o = r.val, ![c].err = r.err]
  /\ pc' = [pc EXCEPT ![c] = "tx_unlock"]
  /\ UNCHANGED <<last, initStock, mu>>

\* CancelOrder, orders.GetByID and the status check
CancelOrderGetStep(c) ==
  /\ pc[c] = "ca_get"
  /\ isTx(c)
  /\ LET g == MemoryOrdersGetByID(store, loc[c].id)
     IN IF g.err # ErrNil \/ g.val.Status # OrderStatusConfirmed
        THEN /\ loc' = [loc EXCEPT ![c].err = IF g.err # ErrNil THEN g.err ELSE ErrInvalidState]
             /\ pc' = [pc EXCEPT ![c] = "tx_unlock"]
        ELSE /\ loc' = [loc EXCEPT ![c].o = g.val, ![c].items = g.val.Items, ![c].i = 1]
             /\ pc' = [pc EXCEPT ![c] = IF g.val.Items = <<>> THEN "ca_update" ELSE "ca_restore"]
  /\ UNCHANGED <<store, last, initStock, mu>>

\* CancelOrder, one line of the restore loop
CancelOrderRestoreStep(c) ==
  /\ pc[c] = "ca_restore"
  /\ isTx(c)
  /\ LET l == loc[c]
         r == CancelOrderLine(store, l.items[l.i])
     IN /\ store' = r.st
        /\ IF r.err # ErrNil
           THEN /\ loc' = [loc EXCEPT ![c].err = r.err]
                /\ pc' = [pc EXCEPT ![c] = "tx_unlock"]
           ELSE /\ loc' = [loc EXCEPT ![c].i = l.i + 1]
                /\ pc' = [pc EXCEPT ![c] = IF l.i = Len(l.items) THEN "ca_update" ELSE "ca_restore"]
  /\ UNCHANGED <<last, initStock, mu>>

\* CancelOrder, the status change and orders.Update
CancelOrderUpdateStep(c) ==
  /\ pc[c] = "ca_update"
  /\ isTx(c)
  /\ LET r == MemoryOrdersUpdate(store, [loc[c].o EXCEPT !.Status = OrderStatusCancelled])
     IN /\ store' = r.st
        /\ loc' = [loc EXCEPT ![c].o = r.val, ![c].err = r.err]
  /\ pc' = [pc EXCEPT ![c] = "tx_unlock"]
  /\ UNCHANGED <<last, initStock, mu>>

\* MemoryStore.wlock of a store call: skipped inside a transaction
wlock(c) ==
  /\ pc[c] = "wlock"
  /\ IF isTx(c) THEN mu' = mu ELSE CanLock(mu) /\ mu' = [mu EXCEPT !.w = c]
  /\ pc' = [pc EXCEPT ![c] = "crit"]
  /\ UNCHANGED <<store, last, initStock, loc>>

\* MemoryStore.Create between wlock and wunlock
ProductCreateStep(c) ==
  /\ pc[c] = "crit"
  /\ loc[c].op = "ProductCreate"
  /\ LET r == MemoryStoreCreate(store, loc[c].p)
     IN /\ store' = r.st
        /\ initStock' = MapPut(initStock, r.val.ID, r.val.Stock)
        /\ loc' = [loc EXCEPT ![c].p = r.val]
  /\ pc' = [pc EXCEPT ![c] = "wunlock"]
  /\ UNCHANGED <<last, mu>>

\* MemoryStore.wunlock
wunlock(c) ==
  /\ pc[c] = "wunlock"
  /\ mu' = IF isTx(c) THEN mu ELSE [mu EXCEPT !.w = 0]
  /\ loc' = [loc EXCEPT ![c] = Returned(loc[c].n)]
  /\ pc' = [pc EXCEPT ![c] = "idle"]
  /\ UNCHANGED <<store, last, initStock>>

NextConc ==
  \E c \in Procs :
    \/ \E items \in SingleLineLists : BeginCreateOrder(c, "John", items)
    \/ \E id \in OrderIDs : BeginCancelOrder(c, id)
    \/ \E p \in ConcProductInputs : BeginProductCreate(c, p)
    \/ TxLock(c)
    \/ CreateOrderCheckStep(c)
    \/ CreateOrderPersistStep(c)
    \/ CreateOrderCreateStep(c)
    \/ CancelOrderGetStep(c)
    \/ CancelOrderRestoreStep(c)
    \/ CancelOrderUpdateStep(c)
    \/ TxUnlock(c)
    \/ wlock(c)
    \/ ProductCreateStep(c)
    \/ wunlock(c)

SpecConc == InitConc /\ [][NextConc]_vars

\* ------------- SpecConcRead: SpecConc with readers, PartialReturn and Delete
\* variant: RLock returns at once
CanRLockNoWait(m) == TRUE

\* sync.RWMutex: RLock returns when no writer holds the lock (a waiting writer
\* also holds new readers back, which only removes behaviours)
CanRLock(m) == m.w = 0

\* the store after one product Create and, when there is stock, possibly one
\* CreateOrder of one unit; no call in progress
InitConcRead ==
  /\ \E s \in 0..MaxStock, ordered \in BOOLEAN :
       LET st == MemoryStoreCreate(NewMemoryStore, Product(0, "A", "S", 10, s)).st
       IN /\ ordered => s > 0
          /\ store = IF ordered
                     THEN OrderServiceCreateOrder(st, "John", <<OrderItem(1, 1)>>).st
                     ELSE st
          /\ initStock = MapPut(EmptyMap, 1, s)
  /\ last = NoCall
  /\ mu = [w |-> 0, r |-> {}]
  /\ pc = [c \in Procs |-> "idle"]
  /\ loc = [c \in Procs |-> NoLocals]

BeginGetOrder(c, id) ==
  /\ pc[c] = "idle"
  /\ Begin(c, "GetOrder", id, "", <<>>, NilProduct, id <= 0, "rlock")

BeginProductGetByID(c, id) ==
  /\ pc[c] = "idle"
  /\ Begin(c, "ProductGetByID", id, "", <<>>, NilProduct, id <= 0, "rlock")

BeginPartialReturn(c, id, returns) ==
  /\ pc[c] = "idle"
  /\ Begin(c, "PartialReturn", id, "", returns, NilProduct,
           id <= 0 \/ Len(returns) = 0 \/ ItemsInvalid(returns), "tx_lock")

BeginProductDelete(c, id) ==
  /\ pc[c] = "idle"
  /\ Begin(c, "ProductDelete", id, "", <<>>, NilProduct, id <= 0, "wlock")

\* MemoryStore.rlock of a store call: skipped inside a transaction
rlock(c) ==
  /\ pc[c] = "rlock"
  /\ IF isTx(c) THEN mu' = mu ELSE CanRLock(mu) /\ mu' = [mu EXCEPT !.r = @ \cup {c}]
  /\ pc' = [pc EXCEPT ![c] = "read"]
  /\ UNCHANGED <<store, last, initStock, loc>>

\* GetByID of an order or a product between rlock and runlock
GetByIDStep(c) ==
  /\ pc[c] = "read"
  /\ IF loc[c].op = "GetOrder"
     THEN LET g == MemoryOrdersGetByID(store, loc[c].id)
          IN loc' = [loc EXCEPT ![c].o = g.val, ![c].err = g.err]
     ELSE LET g == MemoryStoreGetByID(store, loc[c].id)
          IN loc' = [loc EXCEPT ![c].p = g.val, ![c].err = g.err]
  /\ pc' = [pc EXCEPT ![c] = "runlock"]
  /\ UNCHANGED <<store, last, initStock, mu>>

\* MemoryStore.runlock
runlock(c) ==
  /\ pc[c] = "runlock"
  /\ mu' = IF isTx(c) THEN mu ELSE [mu EXCEPT !.r = @ \ {c}]
  /\ loc' = [loc EXCEPT ![c] = Returned(loc[c].n)]
  /\ pc' = [pc EXCEPT ![c] = "idle"]
  /\ UNCHANGED <<store, last, initStock>>

\* PartialReturn, orders.GetByID, the status check and the "not exceeding" loop
PartialReturnGetStep(c) ==
  /\ pc[c] = "pr_get"
  /\ isTx(c)
  /\ LET g == MemoryOrdersGetByID(store, loc[c].id)
         e == IF g.err # ErrNil THEN g.err
              ELSE IF g.val.Status # OrderStatusConfirmed THEN ErrInvalidState
              ELSE IF PartialReturnExceeds(g.val.Items, loc[c].items) THEN ErrInvalidInput
              ELSE ErrNil
     IN IF e # ErrNil
        THEN /\ loc' = [loc EXCEPT ![c].err = e]
             /\ pc' = [pc EXCEPT ![c] = "tx_unlock"]
        ELSE /\ loc' = [loc EXCEPT ![c].o = g.val, ![c].i = 1,
                                   ![c].newItems = <<>>, ![c].copies = EmptyMap]
             /\ pc' = [pc EXCEPT ![c] = IF g.val.Items = <<>> THEN "pr_update" ELSE "pr_line"]
  /\ UNCHANGED <<store, last, initStock, mu>>

\* PartialReturn, one line of the "apply returns" loop
PartialReturnLineStep(c) ==
  /\ pc[c] = "pr_line"
  /\ isTx(c)
  /\ LET l == loc[c]
         r == PartialReturnLine(store, l.items, l.o.Items[l.i], l.newItems, l.copies)
     IN /\ store' = r.st
        /\ IF r.err # ErrNil
           THEN /\ loc' = [loc EXCEPT ![c].err = r.err]
                /\ pc' = [pc EXCEPT ![c] = "tx_unlock"]
           ELSE /\ loc' = [loc EXCEPT ![c].newItems = r.newItems, ![c].copies = r.consumed,
                                      ![c].i = l.i + 1]
                /\ pc' = [pc EXCEPT ![c] = IF l.i = Len(l.o.Items) THEN "pr_update" ELSE "pr_line"]
  /\ UNCHANGED <<last, initStock, mu>>

\* PartialReturn, o.Items = newItems and orders.Update
PartialReturnUpdateStep(c) ==
  /\ pc[c] = "pr_update"
  /\ isTx(c)
  /\ LET r == MemoryOrdersUpdate(store, [loc[c].o EXCEPT !.Items = loc[c].newItems])
     IN /\ store' = r.st
        /\ loc' = [loc EXCEPT ![c].o = r.val, ![c].err = r.err]
  /\ pc' = [pc EXCEPT ![c] = "tx_unlock"]
  /\ UNCHANGED <<last, initStock, mu>>

\* MemoryStore.Delete between wlock and wunlock
ProductDeleteStep(c) ==
  /\ pc[c] = "crit"
  /\ loc[c].op = "ProductDelete"
  /\ LET r == MemoryStoreDelete(store, loc[c].id)
     IN /\ store' = r.st
        /\ loc' = [loc EXCEPT ![c].err = r.err]
  /\ pc' = [pc EXCEPT ![c] = "wunlock"]
  /\ UNCHANGED <<last, initStock, mu>>

NextConcRead ==
  \/ NextConc
  \/ \E c \in Procs :
       \/ \E id \in OrderIDs : BeginGetOrder(c, id)
       \/ \E id \in ProductIDs : BeginProductGetByID(c, id)
       \/ \E id \in OrderIDs, returns \in SingleLineLists : BeginPartialReturn(c, id, returns)
       \/ \E id \in ProductIDs : BeginProductDelete(c, id)
       \/ rlock(c)
       \/ GetByIDStep(c)
       \/ runlock(c)
       \/ PartialReturnGetStep(c)
       \/ PartialReturnLineStep(c)
       \/ PartialReturnUpdateStep(c)
       \/ ProductDeleteStep(c)

SpecConcRead == InitConcRead /\ [][NextConcRead]_vars

\* a step of caller c that waits for nothing: the goroutine is scheduled
RunStep(c) ==
  \/ CreateOrderCheckStep(c) \/ CreateOrderPersistStep(c) \/ CreateOrderCreateStep(c)
  \/ CancelOrderGetStep(c) \/ CancelOrderRestoreStep(c) \/ CancelOrderUpdateStep(c)
  \/ PartialReturnGetStep(c) \/ PartialReturnLineStep(c) \/ PartialReturnUpdateStep(c)
  \/ GetByIDStep(c) \/ ProductCreateStep(c) \/ ProductDeleteStep(c)
  \/ TxUnlock(c) \/ wunlock(c) \/ runlock(c)

\* a step of caller c that waits for the RWMutex
LockStep(c) == TxLock(c) \/ wlock(c) \/ rlock(c)

\* every goroutine that can run is scheduled, and a goroutine waiting for the
\* mutex gets it if it is free again and again (the mutex hands over to waiters)
SpecConcFair ==
  /\ SpecConcRead
  /\ \A c \in Procs : WF_vars(RunStep(c)) /\ SF_vars(LockStep(c))

\* ---- SpecNested: SpecConcRead with clients that call WithTransaction
\* ---- themselves: one with the fn of TestMemoryTx_TransactionalUpdate, one
\* ---- whose fn calls WithTransaction again with the context it was given
\* t.Fatalf in the fn of the test: the goroutine ends, deferred calls run
ErrFatal == "fatal"

\* the fn of TestMemoryTx_TransactionalUpdate for product id and quantity q
\* (the test has q = 3): GetByID, the stock precondition, Update of the
\* reduced stock, orders.Create of a Confirmed order of one line
TransactionalUpdateFn(st, id, q) ==
  LET g == MemoryStoreGetByID(st, id)
  IN IF g.err # ErrNil THEN [st |-> st, err |-> g.err]
     ELSE IF g.val.Stock < q THEN [st |-> st, err |-> ErrFatal]
     ELSE LET u == MemoryStoreUpdate(st, [g.val EXCEPT !.Stock = Int64(@ - q)])
          IN IF u.err # ErrNil THEN [st |-> u.st, err |-> u.err]
             ELSE LET r == MemoryOrdersCreate(u.st, Order(0, "John", <<OrderItem(id, q)>>,
                                                           OrderStatusConfirmed))
                  IN [st |-> r.st, err |-> r.err]

\* the test's client calls tx.WithTransaction(ctx, fn)
BeginWithTransaction(c, id, q) ==
  /\ pc[c] = "idle"
  /\ Begin(c, "WithTransaction", id, "", <<OrderItem(id, q)>>, NilProduct, FALSE, "wt_lock")

\* a client of TxManager whose fn reads product id and then calls
\* tx.WithTransaction(ctx, fn2) with its own, marked, context
BeginWithTransactionNested(c, id) ==
  /\ pc[c] = "idle"
  /\ Begin(c, "WithTransactionNested", id, "", <<>>, NilProduct, FALSE, "wt_lock")

\* variant: Lock is skipped when the context is already marked
WithTransactionLockReentrant(c) ==
  /\ pc[c] \in {"wt_lock", "wt_lock2"}
  /\ IF isTx(c) THEN mu' = mu ELSE CanLock(mu) /\ mu' = [mu EXCEPT !.w = c]
  /\ loc' = [loc EXCEPT ![c].tx = TRUE]
  /\ pc' = [pc EXCEPT ![c] = IF pc[c] = "wt_lock" THEN "wt_fn" ELSE "wt_fn2"]
  /\ UNCHANGED <<store, last, initStock>>

\* WithTransaction, outer or nested: tx.store.mu.Lock() whatever the context
\* holds, then the context is marked
WithTransactionLock(c) ==
  /\ pc[c] \in {"wt_lock", "wt_lock2"}
  /\ CanLock(mu)
  /\ mu' = [mu EXCEPT !.w = c]
  /\ loc' = [loc EXCEPT ![c].tx = TRUE]
  /\ pc' = [pc EXCEPT ![c] = IF pc[c] = "wt_lock" THEN "wt_fn" ELSE "wt_fn2"]
  /\ UNCHANGED <<store, last, initStock>>

\* the client's fn, run with the marked context (the store accessors skip
\* their locks): the test's fn reads, updates and creates, then returns; the
\* nesting fn reads the product and calls WithTransaction again; the fn of the
\* nested call only returns
WithTransactionFn(c) ==
  /\ pc[c] \in {"wt_fn", "wt_fn2"}
  /\ IF pc[c] = "wt_fn2"
     THEN /\ UNCHANGED <<store, loc>>
          /\ pc' = [pc EXCEPT ![c] = "wt_unlock2"]
     ELSE /\ isTx(c)
          /\ IF loc[c].op = "WithTransactionNested"
             THEN LET g == MemoryStoreGetByID(store, loc[c].id)
                  IN /\ store' = store
                     /\ loc' = [loc EXCEPT ![c].p = g.val, ![c].err = g.err]
                     /\ pc' = [pc EXCEPT ![c] = IF g.err = ErrNil THEN "wt_lock2" ELSE "wt_unlock"]
             ELSE LET r == TransactionalUpdateFn(store, loc[c].id, loc[c].items[1].Quantity)
                  IN /\ store' = r.st
                     /\ loc' = [loc EXCEPT ![c].err = r.err]
                     /\ pc' = [pc EXCEPT ![c] = "wt_unlock"]
  /\ UNCHANGED <<last, initStock, mu>>

\* WithTransaction: the deferred tx.store.mu.Unlock(); the nested call returns
\* into the outer fn, which returns, the outer call returns to the client
WithTransactionUnlock(c) ==
  /\ pc[c] \in {"wt_unlock", "wt_unlock2"}
  /\ mu' = [mu EXCEPT !.w = 0]
  /\ IF pc[c] = "wt_unlock2"
     THEN /\ loc' = loc
          /\ pc' = [pc EXCEPT ![c] = "wt_unlock"]
     ELSE /\ loc' = [loc EXCEPT ![c] = Returned(loc[c].n)]
          /\ pc' = [pc EXCEPT ![c] = "idle"]
  /\ UNCHANGED <<store, last, initStock>>

NextNested ==
  \/ NextConcRead
  \/ \E c \in Procs :
       \/ \E id \in ProductIDs, q \in 1..MaxQty : BeginWithTransaction(c, id, q)
       \/ \E id \in ProductIDs : BeginWithTransactionNested(c, id)
       \/ WithTransactionLock(c)
       \/ WithTransactionFn(c)
       \/ WithTransactionUnlock(c)

SpecNested == InitConcRead /\ [][NextNested]_vars

\* ---- SpecWide: the atomic calls on stocks and quantities at the ends of int64
\* TLC's integers have 32 bits.  In SpecWide a stock or a quantity is the
\* record Wide(n, off), which stands for the integer n * 2^62 + off with off
\* small (|off| < 2^29): Wide(0, 1) is 1, Wide(1, 0) is 2^62, Wide(2, -1) is
\* 2^63 - 1, the largest int64, and Wide(-2, 0) is -2^63, the smallest.
\* Sums, differences and comparisons of such numbers are exact on the pairs.
\* The operators below are the service operators with int64 arithmetic on
\* these records; the repository operators do no arithmetic on stocks and
\* are used as they are.
Wide(n, off) == [n |-> n, off |-> off]

WideZero == Wide(0, 0)

\* exact sum and difference
WidePlus(a, b) == Wide(a.n + b.n, a.off + b.off)

WideMinus(a, b) == Wide(a.n - b.n, a.off - b.off)

\* a < b
WideLess(a, b) == a.n < b.n \/ (a.n = b.n /\ a.off < b.off)

\* Int64 on Wide numbers: the number congruent modulo 2^64 = 4 * 2^62 that lies
\* in [-2^63, 2^63) = [-2 * 2^62, 2 * 2^62)
Int64Wide(x) ==
  LET m == x.n % 4
  IN Wide(IF x.off >= 0 THEN (IF m >= 2 THEN m - 4 ELSE m)
                        ELSE (IF m = 3 THEN -1 ELSE m),
          x.off)

ProductServiceCreateWide(st, p) ==
  IF p.Name = "" \/ p.SKU = "" \/ p.Price < 0 \/ WideLess(p.Stock, WideZero)
  THEN [st |-> st, err |-> ErrInvalidInput, val |-> NilProduct, locked |-> FALSE]
  ELSE OutsideTx(MemoryStoreCreate(st, p))

ProductServiceUpdateWide(st, p) ==
  IF p.ID <= 0 \/ p.Name = "" \/ p.Price < 0 \/ WideLess(p.Stock, WideZero)
  THEN [st |-> st, err |-> ErrInvalidInput, val |-> NilProduct, locked |-> FALSE]
  ELSE LET r == OutsideTx(MemoryStoreUpdate(st, p))
       IN IF r.err # ErrNil THEN [r EXCEPT !.val = NilProduct] ELSE r

RECURSIVE SumQtyWide(_, _)
SumQtyWide(items, pid) ==
  IF items = <<>> THEN WideZero
  ELSE Int64Wide(WidePlus(IF Head(items).ProductID = pid THEN Head(items).Quantity
                                                         ELSE WideZero,
                          SumQtyWide(Tail(items), pid)))

ItemsInvalidWide(items) ==
  \E i \in 1..Len(items) :
     items[i].ProductID <= 0 \/ ~WideLess(WideZero, items[i].Quantity)

CreateOrderLineWide(st, it, productCopies) ==
  LET r == MemoryStoreGetByID(st, it.ProductID)
  IN IF r.err # ErrNil THEN [err |-> r.err, productCopies |-> productCopies]
     ELSE IF WideLess(r.val.Stock, it.Quantity)
     THEN [err |-> ErrNotEnoughStock, productCopies |-> productCopies]
     ELSE [err |-> ErrNil,
           productCopies |-> MapPut(productCopies, r.val.ID,
                                    [r.val EXCEPT !.Stock = Int64Wide(WideMinus(@, it.Quantity))])]

RECURSIVE CreateOrderCheckWide(_, _, _)
CreateOrderCheckWide(st, items, productCopies) ==
  IF items = <<>> THEN [err |-> ErrNil, productCopies |-> productCopies]
  ELSE LET r == CreateOrderLineWide(st, Head(items), productCopies)
       IN IF r.err # ErrNil THEN r
          ELSE CreateOrderCheckWide(st, Tail(items), r.productCopies)

CreateOrderTxWide(st, customer, items) ==
  LET c == CreateOrderCheckWide(st, items, EmptyMap)
  IN IF c.err # ErrNil THEN [st |-> st, err |-> c.err, val |-> NilOrder]
     ELSE LET u == CreateOrderPersist(st, c.productCopies)
          IN IF u.err # ErrNil THEN [st |-> u.st, err |-> u.err, val |-> NilOrder]
             ELSE MemoryOrdersCreate(u.st, Order(0, customer, items, OrderStatusConfirmed))

OrderServiceCreateOrderWide(st, customer, items) ==
  IF customer = "" \/ Len(items) = 0 \/ ItemsInvalidWide(items)
  THEN [st |-> st, err |-> ErrInvalidInput, val |-> NilOrder, locked |-> FALSE]
  ELSE LET r == WithTransaction(CreateOrderTxWide(st, customer, items))
       IN IF r.err # ErrNil THEN [r EXCEPT !.val = NilOrder] ELSE r

CancelOrderLineWide(st, it) ==
  LET r == MemoryStoreGetByID(st, it.ProductID)
  IN IF r.err # ErrNil THEN [st |-> st, err |-> r.err]
     ELSE LET u == MemoryStoreUpdate(st, [r.val EXCEPT
                                            !.Stock = Int64Wide(WidePlus(@, it.Quantity))])
          IN [st |-> u.st, err |-> u.err]

RECURSIVE CancelOrderRestoreWide(_, _)
CancelOrderRestoreWide(st, items) ==
  IF items = <<>> THEN [st |-> st, err |-> ErrNil]
  ELSE LET r == CancelOrderLineWide(st, Head(items))
       IN IF r.err # ErrNil THEN r ELSE CancelOrderRestoreWide(r.st, Tail(items))

CancelOrderTxWide(st, id) ==
  LET g == MemoryOrdersGetByID(st, id)
  IN IF g.err # ErrNil THEN [st |-> st, err |-> g.err, val |-> NilOrder]
     ELSE IF g.val.Status # OrderStatusConfirmed
     THEN [st |-> st, err |-> ErrInvalidState, val |-> NilOrder]
     ELSE LET r == CancelOrderRestoreWide(st, g.val.Items)
          IN IF r.err # ErrNil THEN [st |-> r.st, err |-> r.err, val |-> NilOrder]
             ELSE MemoryOrdersUpdate(r.st, [g.val EXCEPT !.Status = OrderStatusCancelled])

OrderServiceCancelOrderWide(st, id) ==
  IF id <= 0
  THEN [st |-> st, err |-> ErrInvalidInput, val |-> NilOrder, locked |-> FALSE]
  ELSE LET r == WithTransaction(CancelOrderTxWide(st, id))
       IN IF r.err # ErrNil THEN [r EXCEPT !.val = NilOrder] ELSE r

\* consumed[pid] of the Go map, zero when the key is absent
MapGetWide0(m, k) == IF k \in DOMAIN m THEN m[k] ELSE WideZero

PartialReturnRestoreWide(st, pid, n) ==
  LET r == MemoryStoreGetByID(st, pid)
  IN IF r.err # ErrNil THEN [st |-> st, err |-> r.err]
     ELSE LET u == MemoryStoreUpdate(st, [r.val EXCEPT !.Stock = Int64Wide(WidePlus(@, n))])
          IN [st |-> u.st, err |-> u.err]

PartialReturnLineWide(st, returns, it, newItems, consumed) ==
  LET ret         == MapGetWide0(consumed, it.ProductID)
      totalReturn == SumQtyWide(returns, it.ProductID)
      canReturn   == it.Quantity
      needReturn  == Int64Wide(WideMinus(totalReturn, ret))
  IN IF ~WideLess(ret, totalReturn)
     THEN [st |-> st, err |-> ErrNil, newItems |-> Append(newItems, it), consumed |-> consumed]
     ELSE IF WideLess(needReturn, canReturn)
     THEN LET u == PartialReturnRestoreWide(st, it.ProductID, needReturn)
          IN [st |-> u.st, err |-> u.err,
              newItems |-> Append(newItems,
                             [it EXCEPT !.Quantity = Int64Wide(WideMinus(@, needReturn))]),
              consumed |-> MapPut(consumed, it.ProductID, Int64Wide(WidePlus(ret, needReturn)))]
     ELSE IF needReturn = canReturn
     THEN LET u == PartialReturnRestoreWide(st, it.ProductID, needReturn)
          IN [st |-> u.st, err |-> u.err, newItems |-> newItems,
              consumed |-> MapPut(consumed, it.ProductID, Int64Wide(WidePlus(ret, needReturn)))]
     ELSE LET u == PartialReturnRestoreWide(st, it.ProductID, canReturn)
          IN [st |-> u.st, err |-> u.err, newItems |-> newItems,
              consumed |-> MapPut(consumed, it.ProductID, Int64Wide(WidePlus(ret, canReturn)))]

RECURSIVE PartialReturnApplyWide(_, _, _, _, _)
PartialReturnApplyWide(st, returns, items, newItems, consumed) ==
  IF items = <<>>
  THEN [st |-> st, err |-> ErrNil, newItems |-> newItems, consumed |-> consumed]
  ELSE LET r == PartialReturnLineWide(st, returns, Head(items), newItems, consumed)
       IN IF r.err # ErrNil THEN r
          ELSE PartialReturnApplyWide(r.st, returns, Tail(items), r.newItems, r.consumed)

PartialReturnExceedsWide(items, returns) ==
  \E i \in 1..Len(returns) :
     WideLess(SumQtyWide(items, returns[i].ProductID), returns[i].Quantity)

PartialReturnTxWide(st, id, returns) ==
  LET g == MemoryOrdersGetByID(st, id)
  IN IF g.err # ErrNil THEN [st |-> st, err |-> g.err, val |-> NilOrder]
     ELSE IF g.val.Status # OrderStatusConfirmed
     THEN [st |-> st, err |-> ErrInvalidState, val |-> NilOrder]
     ELSE IF PartialReturnExceedsWide(g.val.Items, returns)
     THEN [st |-> st, err |-> ErrInvalidInput, val |-> NilOrder]
     ELSE LET r == PartialReturnApplyWide(st, returns, g.val.Items, <<>>, EmptyMap)
          IN IF r.err # ErrNil THEN [st |-> r.st, err |-> r.err, val |-> NilOrder]
             ELSE MemoryOrdersUpdate(r.st, [g.val EXCEPT !.Items = r.newItems])

OrderServicePartialReturnWide(st, id, returns) ==
  IF id <= 0 \/ Len(returns) = 0 \/ ItemsInvalidWide(returns)
  THEN [st |-> st, err |-> ErrInvalidInput, val |-> NilOrder, locked |-> FALSE]
  ELSE LET r == WithTransaction(PartialReturnTxWide(st, id, returns))
       IN IF r.err # ErrNil THEN [r EXCEPT !.val = NilOrder] ELSE r

\* the stocks and quantities callers pass in SpecWide: -1 and 0 (rejected where
\* a positive number is required), 1, 2^62 and 2^63 - 1
WideStocks == {Wide(0, -1), Wide(0, 1), Wide(1, 0), Wide(2, -1)}

WideQuantities == {Wide(0, 0), Wide(0, 1), Wide(1, 0)}

WideProductInputs(id) == {Product(id, "A", "S", 10, s) : s \in WideStocks}

\* the products Update is called with: a negative stock (rejected) and 2^63 - 1
WideUpdateInputs(id) == {Product(id, "A", "S", 10, s) : s \in {Wide(0, -1), Wide(2, -1)}}

WideItemLists ==
  UNION {[1..n -> {OrderItem(pid, q) : pid \in 1..MaxProducts, q \in WideQuantities}] :
           n \in 0..MaxItems}

\* the state space is kept finite by a cap on the small part of a wide number:
\* a restored stock stays within MaxStock of a multiple of 2^62, and a held
\* quantity is returned down to at most MaxStock below one
StockBoundedWide(st) ==
  /\ \A k \in DOMAIN st.productsByID :
        /\ st.productsByID[k].Stock.off <= MaxStock
        /\ st.productsByID[k].Stock.off >= -MaxStock
  /\ \A o \in DOMAIN st.ordersByID : \A i \in 1..Len(st.ordersByID[o].Items) :
        st.ordersByID[o].Items[i].Quantity.off >= -MaxStock

ProductCreateWide(p) ==
  /\ last = NoCall
  /\ store.nextProdID <= MaxProducts
  /\ LET r == ProductServiceCreateWide(store, p)
     IN /\ store' = r.st
        /\ last' = Call("ProductCreate", 0, "", <<>>, p, [r EXCEPT !.val = NilOrder], store)
        /\ initStock' = IF r.err = ErrNil THEN MapPut(initStock, r.val.ID, r.val.Stock)
                        ELSE initStock
  /\ UNCHANGED concVars

ProductUpdateWide(p) ==
  /\ last = NoCall
  /\ LET r == ProductServiceUpdateWide(store, p)
     IN /\ store' = r.st
        /\ last' = Call("ProductUpdate", p.ID, "", <<>>, p, [r EXCEPT !.val = NilOrder], store)
  /\ UNCHANGED <<initStock, concVars>>

CreateOrderWide(customer, items) ==
  /\ last = NoCall
  /\ store.nextOrderID <= MaxOrders
  /\ LET r == OrderServiceCreateOrderWide(store, customer, items)
     IN /\ store' = r.st
        /\ last' = Call("CreateOrder", 0, customer, items, NilProduct, r, store)
  /\ UNCHANGED <<initStock, concVars>>

CancelOrderWide(id) ==
  /\ last = NoCall
  /\ LET r == OrderServiceCancelOrderWide(store, id)
     IN /\ store' = r.st
        /\ StockBoundedWide(store')
        /\ last' = Call("CancelOrder", id, "", <<>>, NilProduct, r, store)
  /\ UNCHANGED <<initStock, concVars>>

PartialReturnWide(id, returns) ==
  /\ last = NoCall
  /\ LET r == OrderServicePartialReturnWide(store, id, returns)
     IN /\ store' = r.st
        /\ StockBoundedWide(store')
        /\ last' = Call("PartialReturn", id, "", returns, NilProduct, r, store)
  /\ UNCHANGED <<initStock, concVars>>

NextWide ==
  \/ \E p \in WideProductInputs(0) : ProductCreateWide(p)
  \/ \E id \in 1..MaxProducts : \E p \in WideUpdateInputs(id) : ProductUpdateWide(p)
  \/ \E items \in WideItemLists : CreateOrderWide("John", items)
  \/ \E id \in OrderIDs : CancelOrderWide(id)
  \/ \E id \in OrderIDs, returns \in WideItemLists : PartialReturnWide(id, returns)
  \/ Reply

SpecWide == Init /\ [][NextWide]_vars

\* ===================================================================== claims
\* the exact sum of the quantities of the lines of items that reference product pid
RECURSIVE Total(_, _)
Total(items, pid) ==
  IF items = <<>> THEN 0
  ELSE (IF Head(items).ProductID = pid THEN Head(items).Quantity ELSE 0)
       + Total(Tail(items), pid)

\* stock of product pid in store value st
StockOf(st, pid) == st.productsByID[pid].Stock

\* quantity of product pid held by the Confirmed orders of store value st
RECURSIVE HeldIn(_, _, _)
HeldIn(st, ids, pid) ==
  IF ids = {} THEN 0
  ELSE LET k == CHOOSE x \in ids : TRUE
           o == st.ordersByID[k]
       IN (IF o.Status = OrderStatusConfirmed THEN Total(o.Items, pid) ELSE 0)
          + HeldIn(st, ids \ {k}, pid)
Held(st, pid) == HeldIn(st, DOMAIN st.ordersByID, pid)

\* the products the lines of items reference
Referenced(items) == {items[i].ProductID : i \in 1..Len(items)}

\* the last call passed its field validation and ran its unit of work
RanCreateOrder    == last.op = "CreateOrder" /\ last.err # ErrInvalidInput
CreatedOrder      == last.op = "CreateOrder" /\ last.err = ErrNil
RanCancelOrder    == last.op = "CancelOrder" /\ last.id > 0
\* the order a CancelOrder / PartialReturn call named, as stored before the call
PreOrderExists    == last.id \in DOMAIN last.pre.ordersByID
PreOrder          == last.pre.ordersByID[last.id]

\* C1: after a successful CreateOrder the stock of every referenced product is
\* its stock before the call minus the sum of the quantities of all submitted
\* lines for that product.  Violated: of several lines for one product only the
\* last one is subtracted.
C1_StockAfterCreateOrder ==
  CreatedOrder =>
    \A pid \in Referenced(last.items) :
      StockOf(store, pid) = StockOf(last.pre, pid) - Total(last.items, pid)

\* C2: a CreateOrder whose lines for some existing product sum to more than the
\* product's stock (all referenced products existing) fails with
\* ErrNotEnoughStock and creates no order.  Violated: each line is compared
\* with the stored stock on its own.
C2_NotEnoughStockOnSum ==
  ( /\ RanCreateOrder
    /\ Referenced(last.items) \subseteq DOMAIN last.pre.productsByID
    /\ \E pid \in Referenced(last.items) : Total(last.items, pid) > StockOf(last.pre, pid) )
  => ( /\ last.err = ErrNotEnoughStock
       /\ store.ordersByID = last.pre.ordersByID )

\* C3: a CreateOrder that fails with ErrNotFound or ErrNotEnoughStock leaves
\* the store as it was: stocks, orders and both identifier counters.
C3_FailedCreateOrderChangesNothing ==
  (last.op = "CreateOrder" /\ last.err \in {ErrNotFound, ErrNotEnoughStock})
    => store = last.pre

\* C3 witness: the second line fails after the first line reserved stock
C3_Witness ==
  /\ last.op = "CreateOrder"
  /\ last.err \in {ErrNotFound, ErrNotEnoughStock}
  /\ Len(last.items) = 2
  /\ CreateOrderLine(last.pre, last.items[1], EmptyMap).err = ErrNil
  /\ store = last.pre

\* C4: CancelOrder called right after a successful CreateOrder succeeds, leaves
\* the order Cancelled and every referenced product's stock at its value before
\* the CreateOrder.  Violated for lists with two lines for one product.
C4_CreateCancelRoundTrip ==
  CreatedOrder =>
    LET r == OrderServiceCancelOrder(store, last.val.ID)
    IN /\ r.err = ErrNil
       /\ r.val.Status = OrderStatusCancelled
       /\ r.st.ordersByID[last.val.ID].Status = OrderStatusCancelled
       /\ \A pid \in Referenced(last.items) : StockOf(r.st, pid) = StockOf(last.pre, pid)

\* C5: without direct product Update / Delete, for every product
\* initial stock = current stock + quantity held by the Confirmed orders.
\* Violated by an order with two lines for one product.
C5_StockConservation ==
  \A pid \in DOMAIN store.productsByID :
    initStock[pid] = StockOf(store, pid) + Held(store, pid)

\* C6: CancelOrder on an order that is already Cancelled fails with
\* ErrInvalidState and changes neither a stock nor an order.
C6_CancelCancelledOrder ==
  (RanCancelOrder /\ PreOrderExists /\ PreOrder.Status = OrderStatusCancelled)
    => (last.err = ErrInvalidState /\ store = last.pre)

\* C6 witness: a cancel of a Cancelled order that held items has returned
C6_Witness ==
  /\ RanCancelOrder /\ PreOrderExists
  /\ PreOrder.Status = OrderStatusCancelled
  /\ PreOrder.Items # <<>>
  /\ last.err = ErrInvalidState

\* C7: a PartialReturn on a Confirmed order that asks, totalled over the return
\* entries of some product, for more than the order holds of that product fails
\* with ErrInvalidInput and changes nothing.  Violated: every return entry is
\* compared with the held quantity on its own.
C7_OverReturnRejected ==
  ( /\ last.op = "PartialReturn" /\ last.id > 0
    /\ last.items # <<>> /\ ~ItemsInvalid(last.items)
    /\ PreOrderExists /\ PreOrder.Status = OrderStatusConfirmed
    /\ \E pid \in Referenced(last.items) :
         Total(last.items, pid) > Total(PreOrder.Items, pid) )
  => (last.err = ErrInvalidInput /\ store = last.pre)

\* C8: after a successful PartialReturn every product's stock has grown by the
\* quantity requested for it (summed over the return entries) and the order
\* holds that much less of it.  Violated when the return entries of a product
\* total more than the order holds (see C7).
C8_PartialReturnAmounts ==
  (last.op = "PartialReturn" /\ last.err = ErrNil)
    => \A pid \in DOMAIN last.pre.productsByID :
         /\ pid \in DOMAIN store.productsByID
         /\ StockOf(store, pid) = StockOf(last.pre, pid) + Total(last.items, pid)
         /\ Total(store.ordersByID[last.id].Items, pid)
              = Total(PreOrder.Items, pid) - Total(last.items, pid)

\* a caller is between the Lock and the Unlock of WithTransaction
UnitOfWork(c) ==
  pc[c] \in {"co_check", "co_persist", "co_create", "ca_get", "ca_restore", "ca_update",
            "pr_get", "pr_line", "pr_update", "tx_unlock"}

\* a caller outside a transaction is between wlock and wunlock of a store write
CriticalSection(c) == pc[c] \in {"crit", "wunlock"} /\ ~isTx(c)

\* C9: at most one unit of work runs at any instant, and no product write made
\* outside a transaction is in its critical section while a unit of work runs.
C9_MutualExclusion ==
  \A c, d \in Procs :
    (c # d /\ UnitOfWork(c)) => ~(UnitOfWork(d) \/ CriticalSection(d))

\* C9 witness: a unit of work is part-way while another caller waits for the
\* lock, one for a transaction or one for a product write
C9_Witness ==
  \E c, d \in Procs :
    /\ c # d
    /\ pc[c] \in {"co_persist", "ca_restore"}
    /\ pc[d] \in {"tx_lock", "wlock"}

NoDupLines(items) ==
  \A i, j \in 1..Len(items) : i # j => items[i].ProductID # items[j].ProductID

\* every stored order is Confirmed and has at most one line per product:
\* only CreateOrder calls of that shape have taken effect
OnlySingleLineCreates ==
  \A k \in DOMAIN store.ordersByID :
    /\ store.ordersByID[k].Status = OrderStatusConfirmed
    /\ NoDupLines(store.ordersByID[k].Items)

\* C10: under concurrent CreateOrder calls with at most one line per product,
\* the quantity of a product over all created orders never exceeds its initial
\* stock, and once every call has returned its stock is the initial stock minus
\* that quantity.
C10_NoOverselling ==
  OnlySingleLineCreates =>
    \A pid \in DOMAIN store.productsByID :
      /\ Held(store, pid) <= initStock[pid]
      /\ (\A c \in Procs : pc[c] = "idle") => StockOf(store, pid) = initStock[pid] - Held(store, pid)

\* C10 witness: two callers have each created an order for product 1
C10_Witness ==
  /\ \A c \in Procs : pc[c] = "idle" /\ loc[c].n > 0
  /\ OnlySingleLineCreates
  /\ Cardinality(DOMAIN store.ordersByID) >= 2
  /\ \A k \in DOMAIN store.ordersByID : Total(store.ordersByID[k].Items, 1) > 0
  /\ StockOf(store, 1) = initStock[1] - Held(store, 1)

\* the lines of items before the first one whose product is not in store value st
RECURSIVE LinesBeforeMissing(_, _)
LinesBeforeMissing(st, items) ==
  IF items = <<>> \/ Head(items).ProductID \notin DOMAIN st.productsByID THEN <<>>
  ELSE <<Head(items)>> \o LinesBeforeMissing(st, Tail(items))

\* C13: WithTransaction returns exactly the error of the unit of work and rolls
\* nothing back: the error and the store after a CreateOrder, CancelOrder or
\* PartialReturn that opened a transaction are those its unit of work produced,
\* and when a CancelOrder fails with ErrNotFound at a line whose product was
\* deleted, the stock restored for the lines before it is read back afterwards.
C13_NoRollback ==
  /\ (last.op = "CreateOrder" /\ last.locked) =>
       LET r == CreateOrderTx(last.pre, last.customer, last.items)
       IN last.err = r.err /\ store = r.st
  /\ (last.op = "CancelOrder" /\ last.locked) =>
       LET r == CancelOrderTx(last.pre, last.id)
       IN last.err = r.err /\ store = r.st
  /\ (last.op = "PartialReturn" /\ last.locked) =>
       LET r == PartialReturnTx(last.pre, last.id, last.items)
       IN last.err = r.err /\ store = r.st
  /\ ( /\ last.op = "CancelOrder" /\ last.locked /\ PreOrderExists
       /\ PreOrder.Status = OrderStatusConfirmed
       /\ Referenced(PreOrder.Items) \ DOMAIN last.pre.productsByID # {} )
     => /\ last.err = ErrNotFound
        /\ store.ordersByID = last.pre.ordersByID
        /\ \A pid \in DOMAIN last.pre.productsByID :
             MemoryStoreGetByID(store, pid).val.Stock =
               StockOf(last.pre, pid) + Total(LinesBeforeMissing(last.pre, PreOrder.Items), pid)

\* C13 witness: a CancelOrder restored the first line's stock, failed at the
\* second line and returned ErrNotFound with the restored stock still stored
C13_Witness ==
  /\ last.op = "CancelOrder" /\ last.locked /\ PreOrderExists
  /\ last.err = ErrNotFound
  /\ LinesBeforeMissing(last.pre, PreOrder.Items) # <<>>
  /\ store # last.pre

\* C14: every stored order is Confirmed or Cancelled and is Confirmed when it is
\* created; the only status change is Confirmed to Cancelled, made by a
\* successful CancelOrder of that order; a Cancelled order is never changed
\* again, and a CancelOrder or PartialReturn that reaches it fails with
\* ErrInvalidState.
C14_OrderLifecycle ==
  /\ \A k \in DOMAIN store.ordersByID :
       LET o == store.ordersByID[k]
       IN /\ o.Status \in {OrderStatusConfirmed, OrderStatusCancelled}
          /\ (last # NoCall /\ k \notin DOMAIN last.pre.ordersByID)
               => (o.Status = OrderStatusConfirmed /\ last.op = "CreateOrder")
          /\ (last # NoCall /\ k \in DOMAIN last.pre.ordersByID)
               => LET b == last.pre.ordersByID[k]
                  IN /\ o.Status # b.Status
                          => /\ b.Status = OrderStatusConfirmed
                             /\ o.Status = OrderStatusCancelled
                             /\ last.op = "CancelOrder" /\ last.err = ErrNil /\ last.id = k
                     /\ b.Status = OrderStatusCancelled => o = b
  /\ ( /\ last.op \in {"CancelOrder", "PartialReturn"} /\ last.locked
       /\ PreOrderExists /\ PreOrder.Status = OrderStatusCancelled )
     => last.err = ErrInvalidState

\* C14 witness: a PartialReturn with well-formed entries reached a Cancelled
\* order that holds items
C14_Witness ==
  /\ last.op = "PartialReturn" /\ last.locked /\ PreOrderExists
  /\ PreOrder.Status = OrderStatusCancelled
  /\ PreOrder.Items # <<>>
  /\ last.err = ErrInvalidState
  /\ store = last.pre

\* C15: whatever product and order service calls have run, every stored
\* product's stock is at least zero.  Violated on int64 numbers: a product
\* Update stores the stock 2^63 - 1, and the restoration of one unit by
\* CancelOrder or PartialReturn then stores -2^63.
C15_StockNonNegative ==
  \A k \in DOMAIN store.productsByID : ~WideLess(store.productsByID[k].Stock, WideZero)

\* a line or return entry the field validation rejects
BadEntry(it) == it.ProductID <= 0 \/ it.Quantity <= 0

\* the arguments of the last call are among those C16 lists
InvalidFields ==
  \/ /\ last.op = "CreateOrder"
     /\ (last.customer = "" \/ last.items = <<>> \/ \E i \in 1..Len(last.items) : BadEntry(last.items[i]))
  \/ /\ last.op = "PartialReturn"
     /\ (last.id <= 0 \/ last.items = <<>> \/ \E i \in 1..Len(last.items) : BadEntry(last.items[i]))
  \/ /\ last.op \in {"CancelOrder", "GetOrder"}
     /\ last.id <= 0
  \/ /\ last.op = "ProductCreate"
     /\ (last.p.Name = "" \/ last.p.SKU = "" \/ last.p.Price < 0 \/ last.p.Stock < 0)

\* C16: a call with an invalid field returns ErrInvalidInput without having
\* acquired the store lock and without changing the store.
C16_ValidationBeforeTransaction ==
  InvalidFields => (last.err = ErrInvalidInput /\ ~last.locked /\ store = last.pre)

\* C16 witness: a PartialReturn on a stored Confirmed order was rejected for
\* its second entry
C16_Witness ==
  /\ last.op = "PartialReturn" /\ PreOrderExists
  /\ PreOrder.Status = OrderStatusConfirmed
  /\ Len(last.items) = 2
  /\ ~BadEntry(last.items[1]) /\ last.items[2].Quantity <= 0
  /\ last.err = ErrInvalidInput /\ ~last.locked

\* C17: a successful CreateOrder returns an order that is stored, is Confirmed
\* and whose items are the submitted list line by line.
C17_CreatedOrderContent ==
  CreatedOrder =>
    /\ last.val.Status = OrderStatusConfirmed
    /\ last.val.CustomerName = last.customer
    /\ last.val.Items = last.items
    /\ last.val.ID \in DOMAIN store.ordersByID
    /\ store.ordersByID[last.val.ID] = last.val

\* C17 witness: an order with two lines for one product was created
C17_Witness ==
  /\ CreatedOrder
  /\ ~NoDupLines(last.items)
  /\ store.ordersByID[last.val.ID].Items = last.items

\* the last call named a positive identifier that was not in the store
AbsentID ==
  \/ /\ last.op \in {"ProductGetByID", "ProductDelete"}
     /\ last.id > 0 /\ last.id \notin DOMAIN last.pre.productsByID
  \/ /\ last.op = "ProductUpdate"
     /\ last.p.ID > 0 /\ last.p.Name # "" /\ last.p.Price >= 0 /\ last.p.Stock >= 0
     /\ last.p.ID \notin DOMAIN last.pre.productsByID
  \/ /\ last.op \in {"GetOrder", "CancelOrder"}
     /\ last.id > 0 /\ ~PreOrderExists
  \/ /\ last.op = "PartialReturn"
     /\ last.id > 0 /\ last.items # <<>> /\ \A i \in 1..Len(last.items) : ~BadEntry(last.items[i])
     /\ ~PreOrderExists

\* C20: a call on an identifier that is not in the store fails with
\* ErrNotFound and changes nothing; so do the repository's order Update and
\* GetByID; after a successful product Delete the product is no longer found.
C20_AbsentIdentifier ==
  /\ AbsentID => (last.err = ErrNotFound /\ store = last.pre)
  /\ \A id \in 1..(MaxOrders + 1) :
       id \notin DOMAIN store.ordersByID =>
         LET u == MemoryOrdersUpdate(store, Order(id, "John", <<>>, OrderStatusConfirmed))
             g == MemoryOrdersGetByID(store, id)
         IN u.err = ErrNotFound /\ u.st = store /\ g.err = ErrNotFound /\ g.st = store
  /\ (last.op = "ProductDelete" /\ last.err = ErrNil) =>
       /\ ProductServiceGetByID(store, last.id).err = ErrNotFound
       /\ MemoryStoreGetByID(store, last.id).err = ErrNotFound

\* C20 witness: a product that was created and then deleted is asked for
C20_Witness ==
  /\ last.op = "ProductGetByID"
  /\ last.id \in DOMAIN initStock
  /\ last.id \notin DOMAIN store.productsByID
  /\ last.err = ErrNotFound

\* C18: a write the caller makes through an order or product a call returned
\* (here: to the quantity of an element of the returned order's items, which
\* for CreateOrder is also an element of the submitted list, or to a field of
\* a returned product) leaves the stored record as the call returned it.
\* Violated: the returned order shares its items array with the stored order.
C18_ResultIsDefensiveCopy ==
  last.mutated =>
    IF last.op = "ProductGetByID"
    THEN store.productsByID[last.id] = last.p
    ELSE store.ordersByID[last.val.ID] = last.val

\* a caller outside a transaction is between rlock and runlock of a store read
Reading(c) == pc[c] \in {"read", "runlock"} /\ ~isTx(c)

\* C11: while a caller is inside a read of the store made outside a
\* transaction (order or product GetByID), no unit of work is between its Lock
\* and Unlock and no product write is in its critical section; the caller
\* holds the read lock, and what it has read is what the store holds.
C11_ReadersExcludeUnitOfWork ==
  \A c \in Procs :
    Reading(c) =>
      /\ c \in mu.r /\ mu.w = 0
      /\ \A d \in Procs : ~UnitOfWork(d) /\ ~CriticalSection(d)
      /\ (pc[c] = "runlock" /\ loc[c].op = "GetOrder")
           => loc[c].o = MemoryOrdersGetByID(store, loc[c].id).val
      /\ (pc[c] = "runlock" /\ loc[c].op = "ProductGetByID")
           => loc[c].p = MemoryStoreGetByID(store, loc[c].id).val

\* C11 witness: a reader has read a stored order while a CancelOrder or
\* PartialReturn of another caller waits for the lock
C11_Witness ==
  \E c, d \in Procs :
    /\ c # d
    /\ pc[c] = "runlock" /\ loc[c].op = "GetOrder" /\ loc[c].err = ErrNil
    /\ pc[d] = "tx_lock" /\ loc[d].op \in {"CancelOrder", "PartialReturn"}

\* C12: a caller between Lock and Unlock of WithTransaction holds the lock all
\* the time; under fair scheduling every caller waiting in WithTransaction for
\* the lock gets it, and every unit of work, failing or not, runs to its end
\* and releases the lock.
C12_UnitOfWorkTerminates ==
  \A c \in Procs :
    /\ [](UnitOfWork(c) => mu.w = c)
    /\ (pc[c] = "tx_lock") ~> UnitOfWork(c)
    /\ UnitOfWork(c) ~> (pc[c] = "idle" /\ mu.w # c)

\* C12 witness: a unit of work that failed is about to release the lock while
\* another caller waits for it
C12_Witness ==
  \E c, d \in Procs :
    /\ c # d
    /\ pc[c] = "tx_unlock" /\ loc[c].err # ErrNil /\ mu.w = c
    /\ pc[d] = "tx_lock"

\* C19: every step that assigns an identifier assigns one that is greater than
\* every identifier the store assigned before, deleted products included
\* (initStock has a key for every product identifier ever assigned), and every
\* step that advances a counter stores a record under a new identifier.
C19_FreshIdentifiers ==
  [][ /\ \A k \in DOMAIN store'.productsByID \ DOMAIN store.productsByID :
           \A j \in DOMAIN initStock : k > j
      /\ store'.nextProdID # store.nextProdID
           => DOMAIN store'.productsByID \ DOMAIN store.productsByID # {}
      /\ \A k \in DOMAIN store'.ordersByID \ DOMAIN store.ordersByID :
           \A j \in DOMAIN store.ordersByID : k > j
      /\ store'.nextOrderID # store.nextOrderID
           => DOMAIN store'.ordersByID \ DOMAIN store.ordersByID # {}
    ]_vars

\* C19 witness: a product Create has just stored its product under an
\* identifier greater than that of a product deleted before
C19_Witness ==
  \E c \in Procs :
    /\ pc[c] = "wunlock" /\ loc[c].op = "ProductCreate"
    /\ loc[c].p.ID \in DOMAIN store.productsByID
    /\ \E j \in DOMAIN initStock : j \notin DOMAIN store.productsByID /\ j < loc[c].p.ID

\* C21: the status a handler answers with is 400 for ErrInvalidInput and
\* ErrNotEnoughStock, 404 for ErrNotFound, 409 for ErrInvalidState and 500 for
\* any other error; a cancel of a Cancelled order is answered 409 and a lookup
\* of a product that is not stored 404.
C21_ErrorStatus ==
  /\ last.err \in {ErrInvalidInput, ErrNotEnoughStock} => HandlerStatus(last) = 400
  /\ last.err = ErrNotFound => HandlerStatus(last) = 404
  /\ last.err = ErrInvalidState => HandlerStatus(last) = 409
  /\ HandlerStatus([last EXCEPT !.err = ErrOther]) = 500
  /\ (RanCancelOrder /\ PreOrderExists /\ PreOrder.Status = OrderStatusCancelled)
       => HandlerStatus(last) = 409
  /\ (last.op = "ProductGetByID" /\ last.id > 0 /\ last.id \notin DOMAIN last.pre.productsByID)
       => HandlerStatus(last) = 404

\* C21 witness: the second cancel of an order has been answered 409
C21_Witness ==
  /\ RanCancelOrder /\ PreOrderExists
  /\ PreOrder.Status = OrderStatusCancelled
  /\ HandlerStatus(last) = StatusConflict

Min(a, b) == IF a < b THEN a ELSE b
Max(a, b) == IF a > b THEN a ELSE b

\* quantity of the lines of items before line i that reference line i's product
QtyBefore(items, i) == Total(SubSeq(items, 1, i - 1), items[i].ProductID)

\* what a left-to-right reconciliation takes from line i of items: the part of
\* the product's total return that the earlier lines of the product left over
TakenFrom(items, returns, i) ==
  Max(0, Min(items[i].Quantity,
             Total(returns, items[i].ProductID) - QtyBefore(items, i)))

\* the rebuilt list: every line less what is taken from it, emptied lines dropped
GreedyItems(items, returns) ==
  LET F[n \in 0..Len(items)] ==
        IF n = 0 THEN <<>>
        ELSE IF TakenFrom(items, returns, n) = items[n].Quantity THEN F[n - 1]
        ELSE Append(F[n - 1], [items[n] EXCEPT !.Quantity = @ - TakenFrom(items, returns, n)])
  IN F[Len(items)]

\* C22: after a successful PartialReturn whose total per product does not
\* exceed what the order holds, the order's items are the old items
\* reconciled left to right: a line gives up what the earlier lines of its
\* product could not cover, emptied lines are dropped, the other lines keep
\* their quantity and their order.
C22_GreedyReconciliation ==
  ( /\ last.op = "PartialReturn" /\ last.err = ErrNil
    /\ \A pid \in Referenced(last.items) :
         Total(last.items, pid) <= Total(PreOrder.Items, pid) )
  => /\ store.ordersByID[last.id].Items = GreedyItems(PreOrder.Items, last.items)
     /\ last.val.Items = GreedyItems(PreOrder.Items, last.items)

\* C22 witness: of two lines of one product the first was dropped and the
\* second reduced
C22_Witness ==
  /\ last.op = "PartialReturn" /\ last.err = ErrNil
  /\ Len(PreOrder.Items) = 2
  /\ PreOrder.Items[1].ProductID = PreOrder.Items[2].ProductID
  /\ Total(last.items, PreOrder.Items[1].ProductID) < Total(PreOrder.Items, PreOrder.Items[1].ProductID)
  /\ Len(store.ordersByID[last.id].Items) = 1
  /\ store.ordersByID[last.id].Items[1].Quantity < PreOrder.Items[2].Quantity

\* C23: a successful PartialReturn leaves the order Confirmed, also when no
\* item is left; a Confirmed order without items is cancelled by the next
\* CancelOrder, which changes no product, and a further CancelOrder fails with
\* ErrInvalidState.
C23_PartialReturnKeepsStatus ==
  /\ (last.op = "PartialReturn" /\ last.err = ErrNil)
       => /\ PreOrder.Status = OrderStatusConfirmed
          /\ store.ordersByID[last.id].Status = OrderStatusConfirmed
          /\ last.val.Status = OrderStatusConfirmed
  /\ \A k \in DOMAIN store.ordersByID :
       (store.ordersByID[k].Status = OrderStatusConfirmed /\ store.ordersByID[k].Items = <<>>)
         => LET r1 == OrderServiceCancelOrder(store, k)
                r2 == OrderServiceCancelOrder(r1.st, k)
            IN /\ r1.err = ErrNil
               /\ r1.st.productsByID = store.productsByID
               /\ r1.st.ordersByID[k].Status = OrderStatusCancelled
               /\ r2.err = ErrInvalidState /\ r2.st = r1.st
  /\ (RanCancelOrder /\ PreOrderExists /\ PreOrder.Status = OrderStatusConfirmed
        /\ PreOrder.Items = <<>>)
       => /\ last.err = ErrNil
          /\ store.productsByID = last.pre.productsByID
          /\ store.ordersByID[last.id].Status = OrderStatusCancelled

\* C23 witness: an order emptied by PartialReturn has been cancelled
C23_Witness ==
  /\ RanCancelOrder /\ PreOrderExists
  /\ PreOrder.Status = OrderStatusConfirmed
  /\ PreOrder.Items = <<>>
  /\ last.err = ErrNil

\* the first line of items whose product is not in store value st
FirstMissing(st, items) ==
  CHOOSE i \in 1..Len(items) :
    /\ items[i].ProductID \notin DOMAIN st.productsByID
    /\ \A j \in 1..(i - 1) : items[j].ProductID \in DOMAIN st.productsByID

\* C24: when a CancelOrder reaches a Confirmed order whose k-th line is the
\* first one that references a product no longer stored, it returns
\* ErrNotFound, every stored product's stock has grown by the quantities of
\* its lines among 1..k-1, and the order is stored as before, Confirmed.
C24_CancelPartialRestore ==
  ( /\ RanCancelOrder /\ PreOrderExists
    /\ PreOrder.Status = OrderStatusConfirmed
    /\ \E i \in 1..Len(PreOrder.Items) :
         PreOrder.Items[i].ProductID \notin DOMAIN last.pre.productsByID )
  => LET k == FirstMissing(last.pre, PreOrder.Items)
     IN /\ last.err = ErrNotFound
        /\ DOMAIN store.productsByID = DOMAIN last.pre.productsByID
        /\ \A pid \in DOMAIN last.pre.productsByID :
             StockOf(store, pid) - StockOf(last.pre, pid)
               = Total(SubSeq(PreOrder.Items, 1, k - 1), pid)
        /\ store.ordersByID[last.id] = PreOrder
        /\ store.ordersByID[last.id].Status = OrderStatusConfirmed

\* C24 witness: the first line's quantity was added to its product's stock and
\* the second line's product was missing
C24_Witness ==
  /\ RanCancelOrder /\ PreOrderExists
  /\ Len(PreOrder.Items) = 2
  /\ PreOrder.Items[1].ProductID \in DOMAIN last.pre.productsByID
  /\ PreOrder.Items[2].ProductID \notin DOMAIN last.pre.productsByID
  /\ last.err = ErrNotFound
  /\ StockOf(store, PreOrder.Items[1].ProductID)
       = StockOf(last.pre, PreOrder.Items[1].ProductID) + PreOrder.Items[1].Quantity

\* what a left-to-right reconciliation takes from lines 1..n of product pid
RECURSIVE TakenUpTo(_, _, _, _)
TakenUpTo(items, returns, n, pid) ==
  IF n = 0 THEN 0
  ELSE (IF items[n].ProductID = pid THEN TakenFrom(items, returns, n) ELSE 0)
       + TakenUpTo(items, returns, n - 1, pid)

\* the last call is a PartialReturn that passed the field validation, the
\* status check and the per-entry comparison with the held quantities
RanPartialReturnWalk ==
  /\ last.op = "PartialReturn" /\ last.locked /\ PreOrderExists
  /\ PreOrder.Status = OrderStatusConfirmed
  /\ \A i \in 1..Len(last.items) :
       Total(PreOrder.Items, last.items[i].ProductID) >= last.items[i].Quantity

\* line i of the order gives something up and its product is not stored
WalkFailsAt(i) ==
  /\ TakenFrom(PreOrder.Items, last.items, i) > 0
  /\ PreOrder.Items[i].ProductID \notin DOMAIN last.pre.productsByID

\* C25: a PartialReturn whose walk reaches an affected line of a product that
\* is no longer stored returns ErrNotFound, the stock of every stored product
\* has grown by what the affected lines before that line gave up, and the
\* stored order is as before the call.
C25_PartialReturnPartialRestore ==
  (RanPartialReturnWalk /\ \E i \in 1..Len(PreOrder.Items) : WalkFailsAt(i))
  => LET k == CHOOSE i \in 1..Len(PreOrder.Items) :
                WalkFailsAt(i) /\ \A j \in 1..(i - 1) : ~WalkFailsAt(j)
     IN /\ last.err = ErrNotFound
        /\ \A pid \in DOMAIN last.pre.productsByID :
             /\ pid \in DOMAIN store.productsByID
             /\ StockOf(store, pid) - StockOf(last.pre, pid)
                  = TakenUpTo(PreOrder.Items, last.items, k - 1, pid)
        /\ store.ordersByID = last.pre.ordersByID

\* C25 witness: a PartialReturn failed with ErrNotFound after it had restored
\* stock for an earlier line
C25_Witness ==
  /\ RanPartialReturnWalk
  /\ last.err = ErrNotFound
  /\ \E pid \in DOMAIN last.pre.productsByID : StockOf(store, pid) > StockOf(last.pre, pid)
  /\ store.ordersByID = last.pre.ordersByID

\* quantity of the last line of items that references product pid
LastQty(items, pid) ==
  LET i == CHOOSE x \in 1..Len(items) :
             /\ items[x].ProductID = pid
             /\ \A y \in (x + 1)..Len(items) : items[y].ProductID # pid
  IN items[i].Quantity

\* C26: a CreateOrder over stored products succeeds exactly when every single
\* line's quantity is within the product's stock as stored before the call
\* (ErrNotEnoughStock otherwise), and on success the stock of each referenced
\* product is its stock before the call minus the quantity of the last line
\* that references it.
C26_PerLineCheckLastLineWins ==
  (RanCreateOrder /\ Referenced(last.items) \subseteq DOMAIN last.pre.productsByID)
  => /\ last.err \in {ErrNil, ErrNotEnoughStock}
     /\ last.err = ErrNil
          <=> \A i \in 1..Len(last.items) :
                last.items[i].Quantity <= StockOf(last.pre, last.items[i].ProductID)
     /\ last.err = ErrNil
          => \A pid \in Referenced(last.items) :
               StockOf(store, pid) = StockOf(last.pre, pid) - LastQty(last.items, pid)

\* C26 witness: two lines of one product with different quantities, the
\* second one subtracted
C26_Witness ==
  /\ CreatedOrder
  /\ Len(last.items) = 2
  /\ last.items[1].ProductID = last.items[2].ProductID
  /\ last.items[1].Quantity > last.items[2].Quantity
  /\ StockOf(store, last.items[1].ProductID)
       = StockOf(last.pre, last.items[1].ProductID) - last.items[2].Quantity

\* C27: what CancelOrder calls add to a product's stock on behalf of an order
\* never exceeds the quantity the order held of it.  Stated for two calls in a
\* row, the last call and its repetition, against the quantity the order held
\* before the first (which is at most the quantity at creation: items are
\* never added).  Violated: a CancelOrder that fails at a deleted product has
\* restored the earlier lines, and its repetition restores them again.
C27_AtMostOnceRestoration ==
  (RanCancelOrder /\ PreOrderExists)
  => LET again == OrderServiceCancelOrder(store, last.id)
     IN \A pid \in DOMAIN last.pre.productsByID :
          pid \in DOMAIN again.st.productsByID
            => StockOf(again.st, pid) - StockOf(last.pre, pid) <= Total(PreOrder.Items, pid)

\* C28: with orders of at most one line per product and no product Update or
\* Delete, every product's initial stock is its stock plus the quantity held by
\* Confirmed orders, in every state; after a successful CancelOrder that leaves
\* no Confirmed order every stock is back at its initial value.
C28_SingleLineConservation ==
  /\ \A pid \in DOMAIN store.productsByID :
       initStock[pid] = StockOf(store, pid) + Held(store, pid)
  /\ ( /\ RanCancelOrder /\ last.err = ErrNil
       /\ \A k \in DOMAIN store.ordersByID : store.ordersByID[k].Status = OrderStatusCancelled )
     => \A pid \in DOMAIN store.productsByID : StockOf(store, pid) = initStock[pid]

\* C28 witness: a PartialReturn with two entries for one product succeeded and
\* left part of the order
C28_Witness ==
  /\ last.op = "PartialReturn" /\ last.err = ErrNil
  /\ ~NoDupLines(last.items)
  /\ store.ordersByID[last.id].Items # <<>>
  /\ \E pid \in Referenced(last.items) : StockOf(store, pid) > StockOf(last.pre, pid)

\* the exact sum of the quantities of the lines of items that reference
\* product pid, for Wide quantities
RECURSIVE TotalWide(_, _)
TotalWide(items, pid) ==
  IF items = <<>> THEN WideZero
  ELSE WidePlus(IF Head(items).ProductID = pid THEN Head(items).Quantity ELSE WideZero,
                TotalWide(Tail(items), pid))

WideMin(a, b) == IF WideLess(b, a) THEN b ELSE a

\* C29: after a successful PartialReturn, for every product, the growth of the
\* stock is the decrease of the quantity the order holds, and is the smaller of
\* the total requested and the quantity held before.  Violated on int64
\* numbers: two entries of 2^62 for a product of which the order holds 2^62
\* pass the validation, their total is computed as -2^63, and the call
\* succeeds without returning anything.
C29_ReturnedAmount ==
  (last.op = "PartialReturn" /\ last.err = ErrNil)
  => \A pid \in DOMAIN last.pre.productsByID :
       /\ pid \in DOMAIN store.productsByID
       /\ WideMinus(StockOf(store, pid), StockOf(last.pre, pid))
            = WideMinus(TotalWide(PreOrder.Items, pid),
                        TotalWide(store.ordersByID[last.id].Items, pid))
       /\ WideMinus(StockOf(store, pid), StockOf(last.pre, pid))
            = WideMin(TotalWide(last.items, pid), TotalWide(PreOrder.Items, pid))

\* order k of store value st is Confirmed and has a line whose product is not stored
Stuck(st, k) ==
  /\ k \in DOMAIN st.ordersByID
  /\ st.ordersByID[k].Status = OrderStatusConfirmed
  /\ \E i \in 1..Len(st.ordersByID[k].Items) :
       st.ordersByID[k].Items[i].ProductID \notin DOMAIN st.productsByID

\* C30: a Confirmed order with a line of a deleted product stays so in every
\* later state; every CancelOrder of it fails with ErrNotFound, and so does
\* every PartialReturn whose entries name the deleted product.
C30_DeletedProductBlocksCancel ==
  /\ [][\A k \in DOMAIN store.ordersByID : Stuck(store, k) => Stuck(store', k)]_vars
  /\ []((RanCancelOrder /\ Stuck(last.pre, last.id)) => last.err = ErrNotFound)
  /\ []((RanPartialReturnWalk
           /\ \E pid \in Referenced(last.items) \cap Referenced(PreOrder.Items) :
                pid \notin DOMAIN last.pre.productsByID)
         => last.err = ErrNotFound)

\* C30 witness: a CancelOrder failed on such an order while a product with a
\* greater identifier than the deleted one is stored
C30_Witness ==
  /\ RanCancelOrder /\ Stuck(last.pre, last.id)
  /\ last.err = ErrNotFound
  /\ \E i \in 1..Len(PreOrder.Items), pid \in DOMAIN store.productsByID :
       /\ PreOrder.Items[i].ProductID \notin DOMAIN store.productsByID
       /\ pid > PreOrder.Items[i].ProductID

\* caller c waits in a WithTransaction call made by the fn of its running WithTransaction
NestedCall(c) == pc[c] = "wt_lock2"

\* caller c waits in the Lock of some WithTransaction call
InTxLock(c) == pc[c] \in {"tx_lock", "wt_lock", "wt_lock2"}

\* C31: a store accessor called with the marked context leaves the mutex
\* alone, while every WithTransaction call, marked context or not, gets past
\* its Lock only when the mutex has no writer and no reader; a WithTransaction
\* call made from inside a running unit of work (the caller holds the write
\* lock itself) therefore never gets past its Lock and the lock is held for
\* ever; no CreateOrder, CancelOrder or PartialReturn is ever in such a call.
C31_NestedTransactionBlocks ==
  /\ [][\A c \in Procs :
         (InTxLock(c) /\ pc'[c] # pc[c]) => (mu.w = 0 /\ mu.r = {} /\ mu'.w = c)]_vars
  /\ [][\A c \in Procs :
         (pc[c] = "wt_fn" /\ pc'[c] # pc[c]) => (loc[c].tx /\ mu.w = c /\ mu' = mu)]_vars
  /\ [](\A c \in Procs : NestedCall(c) => (loc[c].tx /\ mu.w = c))
  /\ [][\A c \in Procs : NestedCall(c) => (NestedCall(c)' /\ mu'.w = c)]_vars
  /\ [](\A c \in Procs :
         loc[c].op \in {"CreateOrder", "CancelOrder", "PartialReturn"}
           => (~NestedCall(c) /\ (InTxLock(c) => ~loc[c].tx /\ mu.w # c)))

\* C31 witness: a caller is in the nested call after its fn has read a product
\* without locking, and the other caller waits for the mutex
C31_Witness ==
  \E c, d \in Procs :
    /\ c # d
    /\ NestedCall(c) /\ loc[c].tx /\ mu.w = c
    /\ loc[c].p # NilProduct
    /\ pc[d] \in {"tx_lock", "wt_lock", "rlock", "wlock"}

====
